---- MODULE Spec2Model ----
(***************************************************************************)
(* Descriptor resolution engine of tk-core:                                *)
(*   - the version pattern matcher (_find_latest_tag_by_pattern),          *)
(*   - the identity codec (uri_from_dict / dict_from_uri),                 *)
(*   - the descriptor life cycle (exists_local, ensure_local,              *)
(*     get_manifest) over a file system and a provider,                    *)
(*   - the cache path resolver and _validate_descriptor,                   *)
(*   - TankPerforceDescriptor (construction, download, matcher),           *)
(*   - CoreImportHandler (construction, set_core_path, imports).           *)
(* Python strings are sequences of one-character strings, Python dicts are *)
(* functions, Python None is the value None.                               *)
(***************************************************************************)
EXTENDS Integers, Sequences, FiniteSets, TLC

VARIABLES
    \* version pattern matcher
    version_numbers,   \* the list of tags given to the matcher
    pattern,           \* the version pattern given to the matcher
    matcher_out,       \* outcome of _find_latest_tag_by_pattern, or Pending
    \* identity codec
    descriptor_dict,   \* the identity given to uri_from_dict, or <<>>
    uri,               \* the string given to dict_from_uri, or <<>>
    uri_out,           \* outcome of uri_from_dict, or Pending
    dict_out,          \* outcome of dict_from_uri, or Pending
    \* descriptor life cycle
    manifest_data,     \* self.__manifest_data
    fs,                \* candidate path -> content of its metadata file
    download_calls,    \* number of download_local() invocations so far
    first_manifest,    \* what the first returning get_manifest() returned
    last,              \* record of the most recent descriptor call that
                       \* has ended, of the environment's step after it,
                       \* or of a call being under way
    call,              \* the descriptor call under way and where it stands
    self,              \* the instance's _descriptor_dict, _bundle_cache_root
                       \* and _fallback_roots
    \* Perforce descriptor
    perforce,          \* the local copy of a TankPerforceDescriptor's bundle,
                       \* the umask of the process, where each thread stands
                       \* in download_local(), the most recent call's record
    \* threads calling get_manifest() on one instance
    threads,           \* each thread's position in get_manifest, its local
                       \* variables and its outcome; the number of yaml.load
    \* cache path resolver
    resolver,          \* the roots and the bundle given to the resolver, and
                       \* its outcome
    \* _validate_descriptor
    validation,        \* the dictionary and the key lists given to
                       \* _validate_descriptor, its outcome and the warnings
                       \* it logged
    \* CoreImportHandler
    importer,          \* the handler's fields, sys.modules, the cores on disk
                       \* and the position of each thread
    \* TankPerforceDescriptor
    p4_matcher_out,    \* outcome of the Perforce _find_latest_tag_by_pattern
    p4_init            \* the location dict given to __init__ and its outcome

vars == <<version_numbers, pattern, matcher_out,
          descriptor_dict, uri, uri_out, dict_out,
          manifest_data, fs, download_calls, first_manifest, last, call, self,
          perforce, threads, resolver, validation,
          importer, p4_matcher_out, p4_init>>

matcherVars == <<version_numbers, pattern, matcher_out>>
codecVars == <<descriptor_dict, uri, uri_out, dict_out>>
descriptorVars == <<manifest_data, fs, download_calls, first_manifest, last, call, self>>
perforceVars == <<perforce>>
threadVars == <<threads>>
resolverVars == <<resolver>>
validationVars == <<validation>>
importerVars == <<importer>>
p4MatcherVars == <<p4_matcher_out>>
p4InitVars == <<p4_init>>

(***************************************************************************)
(* Bounds of the model.                                                    *)
(***************************************************************************)
MaxTags == 2
MaxExtraKeys == 2
MaxDownloads == 2

\* files under the depot path
MaxDepotFiles == 3

\* download_local() calls that get past the exists_local() test, and the
\* threads that call download_local() on the same Perforce descriptor
MaxP4Downloads == 3
MaxP4Threads == 2

\* threads that call get_manifest() on the same instance
MaxThreads == 2

\* cache roots given to the resolver, the primary root included
MaxRoots == 3

\* set_core_path() calls that get as far as changing the core path
MaxCoreChanges == 2

(***************************************************************************)
(* Python values and string primitives.                                    *)
(***************************************************************************)
None == "None"
Pending == [kind |-> "pending", value |-> <<>>, error |-> "", text |-> <<>>]

NotCalled == [kind |-> "not called", value |-> <<>>, error |-> "", text |-> <<>>]

Return(v) == [kind |-> "return", value |-> v, error |-> "", text |-> <<>>]

Raise(exc, what, txt) == [kind |-> exc, value |-> <<>>, error |-> what, text |-> txt]

Digits == {"0", "1", "2", "3", "4", "5", "6", "7", "8", "9"}

DigitChars == <<"0", "1", "2", "3", "4", "5", "6", "7", "8", "9">>

\* the characters str.isspace() accepts; the vertical tab, which has no
\* escape of its own, is written \x0b
Whitespace == {" ", "\t", "\n", "\r", "\f", "\\x0b"}

DigitVal(c) == (CHOOSE i \in 1..10 : DigitChars[i] = c) - 1

Max(S) == CHOOSE m \in S : \A n \in S : n <= m

\* s[i:] of Python (i counted from 0)
Drop(s, i) == IF i >= Len(s) THEN <<>> ELSE SubSeq(s, i + 1, Len(s))

Contains(s, c) == \E i \in 1..Len(s) : s[i] = c

\* s.find(c) + 1, i.e. the first position of c in s, 0 when absent
Find(s, c) ==
    IF Contains(s, c)
    THEN CHOOSE i \in 1..Len(s) : s[i] = c /\ \A j \in 1..(i - 1) : s[j] # c
    ELSE 0

\* s.split(sep) for a one-character separator: always at least one piece
RECURSIVE Split(_, _)
Split(s, sep) ==
    IF ~Contains(s, sep)
    THEN <<s>>
    ELSE LET i == Find(s, sep)
         IN  <<SubSeq(s, 1, i - 1)>> \o Split(Drop(s, i), sep)

\* s.split(sep, 1)
Split1(s, sep) ==
    IF ~Contains(s, sep)
    THEN <<s>>
    ELSE LET i == Find(s, sep)
         IN  <<SubSeq(s, 1, i - 1), Drop(s, i)>>

\* sep.join(parts)
RECURSIVE Join(_, _)
Join(parts, sep) ==
    IF Len(parts) = 0 THEN <<>>
    ELSE IF Len(parts) = 1 THEN parts[1]
    ELSE parts[1] \o sep \o Join(Tail(parts), sep)

\* s.strip()
RECURSIVE Strip(_)
Strip(s) ==
    IF Len(s) = 0 THEN s
    ELSE IF s[1] \in Whitespace THEN Strip(Tail(s))
    ELSE IF s[Len(s)] \in Whitespace THEN Strip(SubSeq(s, 1, Len(s) - 1))
    ELSE s

AllDigits(s) == Len(s) > 0 /\ \A i \in 1..Len(s) : s[i] \in Digits

RECURSIVE DigitsValue(_)
DigitsValue(s) ==
    IF Len(s) = 0 THEN 0
    ELSE 10 * DigitsValue(SubSeq(s, 1, Len(s) - 1)) + DigitVal(s[Len(s)])

\* what int() reads the digits from: the string without the white space
\* around it, without its sign and without the white space after the sign
Unsigned(s) ==
    LET t == Strip(s)
    IN  IF Len(t) > 0 /\ t[1] \in {"+", "-"} THEN Strip(Tail(t)) ELSE t

\* whether int(s) succeeds: white space, an optional sign, white space,
\* digits, white space
PyIntOk(s) == AllDigits(Unsigned(s))

\* int(s)
PyInt(s) ==
    LET t == Strip(s)
    IN  IF t[1] = "-" THEN 0 - DigitsValue(Unsigned(s))
        ELSE DigitsValue(Unsigned(s))

\* "%d" % n
RECURSIVE NatToStr(_)
NatToStr(n) ==
    IF n < 10 THEN <<DigitChars[n + 1]>>
    ELSE NatToStr(n \div 10) \o <<DigitChars[(n % 10) + 1]>>

FormatInt(n) == IF n < 0 THEN <<"-">> \o NatToStr(0 - n) ELSE NatToStr(n)

(***************************************************************************)
(* Version pattern matcher: IODescriptorBase._find_latest_tag_by_pattern.  *)
(* The nested dictionary "versions" is the prefix-closed set of its key    *)
(* paths; "current" is the key path of the dictionary reached so far.      *)
(***************************************************************************)

\* map(int, version_num[1:].split(".")) succeeds
TagParses(version_num) ==
    LET parts == Split(Drop(version_num, 1), ".")
    IN  \A i \in 1..Len(parts) : PyIntOk(parts[i])

\* map(int, version_num[1:].split("."))
TagSplit(version_num) ==
    LET parts == Split(Drop(version_num, 1), ".")
    IN  [i \in 1..Len(parts) |-> PyInt(parts[i])]

\* the tags that survive the two "continue" statements
TagKept(version_num) == TagParses(version_num) /\ Len(TagSplit(version_num)) >= 3

\* the nested dictionary built by the first loop
BuildVersions(tags) ==
    UNION { { SubSeq(TagSplit(tags[i]), 1, n) : n \in 1..Len(TagSplit(tags[i])) } :
            i \in { j \in 1..Len(tags) : TagKept(tags[j]) } }

\* current.keys()
Keys(versions, current) ==
    { p[Len(p)] : p \in { q \in versions : /\ Len(q) = Len(current) + 1
                                           /\ SubSeq(q, 1, Len(current)) = current } }

\* positions just after a match of ([0-9]+|x) that starts at position i
SegEnds(s, i) ==
    IF i > Len(s) THEN {}
    ELSE IF s[i] = "x" THEN {i + 1}
    ELSE { j \in (i + 1)..(Len(s) + 1) : \A k \in i..(j - 1) : s[k] \in Digits }

\* positions just after a match of (.([0-9]+|x)) that starts at a position of P;
\* the unescaped "." matches any character but a newline
GroupStep(s, P) ==
    UNION { IF i <= Len(s) /\ s[i] # "\n" THEN SegEnds(s, i + 1) ELSE {} : i \in P }

RECURSIVE GroupClosure(_, _)
GroupClosure(s, P) ==
    IF P = {} THEN {} ELSE P \cup GroupClosure(s, GroupStep(s, P))

\* "$": the end of the string, or just before a newline that ends it
AtEnd(s, p) == p = Len(s) + 1 \/ (p = Len(s) /\ s[Len(s)] = "\n")

\* re.match("^v([0-9]+|x)(.([0-9]+|x)){2,}$", pattern)
PatternRegex(s) ==
    /\ Len(s) >= 1
    /\ s[1] = "v"
    /\ \E p \in GroupClosure(s, GroupStep(s, GroupStep(s, SegEnds(s, 2)))) : AtEnd(s, p)

\* re.findall("([0-9]+|x)", pattern)
RECURSIVE FindAll(_)
FindAll(s) ==
    IF Len(s) = 0 THEN <<>>
    ELSE IF s[1] = "x" THEN <<(<<"x">>)>> \o FindAll(Tail(s))
    ELSE IF s[1] \in Digits
         THEN LET n == Max({ j \in 1..Len(s) : \A k \in 1..j : s[k] \in Digits })
              IN  <<SubSeq(s, 1, n)>> \o FindAll(Drop(s, n))
    ELSE FindAll(Tail(s))

InClass(s, lo, hi, class) == \A k \in lo..hi : s[k] \in class

\* re.match("^v[0-9\.]+[x\.]+[0-9\.]+$", pattern)
DigitAfterXRegex(s) ==
    /\ Len(s) >= 1
    /\ s[1] = "v"
    /\ \E e \in {Len(s), Len(s) - 1} :
          /\ AtEnd(s, e + 1)
          /\ \E i \in 2..e : \E j \in (i + 1)..e :
                /\ j + 1 <= e
                /\ InClass(s, 2, i, Digits \cup {"."})
                /\ InClass(s, i + 1, j, {"x", "."})
                /\ InClass(s, j + 1, e, Digits \cup {"."})

\* "v%d" % a, then + ".%d" % b for every further key
FormatVersion(path) ==
    <<"v">> \o Join([i \in 1..Len(path) |-> FormatInt(path[i])], <<".">>)

\* a matcher that stops where the pattern ends
NoForkDescent(versions, current) == current

\* the closing while loop: descend into the forked versions
RECURSIVE ForkDescent(_, _)
ForkDescent(versions, current) ==
    IF Keys(versions, current) = {} THEN current
    ELSE ForkDescent(versions, Append(current, Max(Keys(versions, current))))

NoMatchText(tags) == Join(tags, <<",", " ">>)

\* the for loop over the pattern's digits, from digit i on
RECURSIVE Descend(_, _, _, _, _)
Descend(versions, version_split, i, current, tags) ==
    IF i > Len(version_split)
    THEN Return(FormatVersion(ForkDescent(versions, current)))
    ELSE IF version_split[i] = <<"x">> /\ Keys(versions, current) = {}
         THEN Raise("ValueError", "max() arg is an empty sequence", <<>>)
    ELSE LET version_digit == IF version_split[i] = <<"x">>
                              THEN Max(Keys(versions, current))
                              ELSE PyInt(version_split[i])
         IN  IF version_digit \notin Keys(versions, current)
             THEN Raise("TankDescriptorError", "no version matching the pattern",
                        NoMatchText(tags))
             ELSE Descend(versions, version_split, i + 1,
                          Append(current, version_digit), tags)

find_latest_tag_by_pattern(tags, pat) ==
    LET versions == BuildVersions(tags)
        version_split == FindAll(pat)
    IN  IF ~PatternRegex(pat)
        THEN Raise("TankDescriptorError", "Cannot parse version expression", <<>>)
        ELSE IF (\E i \in 1..Len(version_split) : version_split[i] = <<"x">>)
                /\ DigitAfterXRegex(pat)
        THEN Raise("TankDescriptorError", "no digit after a 'x'", <<>>)
        ELSE Descend(versions, version_split, 1, <<>>, tags)

(***************************************************************************)
(* TankPerforceDescriptor: construction and version matcher.               *)
(***************************************************************************)
\* location_dict.get(key): None when the key is not there
DictGet(d, key) == IF key \in DOMAIN d THEN d[key] ELSE None

\* TankPerforceDescriptor.__init__ after the call of the base class: the
\* outcome, and the _path and _version of the instance when it is made
p4_init_descriptor(location_dict) ==
    LET path == DictGet(location_dict, <<"p", "a", "t", "h">>)
        version == DictGet(location_dict, <<"v", "e", "r", "s", "i", "o", "n">>)
        stripped == IF path # None /\ Len(path) > 0 /\ path[Len(path)] \in {"/", "\\"}
                    THEN SubSeq(path, 1, Len(path) - 1)
                    ELSE path
    IN  IF path = None
        THEN Raise("AttributeError", "'NoneType' object has no attribute 'endswith'", <<>>)
        ELSE IF version = None
        THEN Raise("TankError", "Perforce descriptor is not valid", <<>>)
        ELSE Return([path |-> stripped, version |-> version])

\* _find_latest_tag_by_pattern of TankPerforceDescriptor: the dictionary of
\* versions is built as in the base class (no tag makes the loop raise), then
\* NotImplementedError is raised whatever the tags and the pattern
p4_find_latest_tag_by_pattern(tags, pat) == Raise("NotImplementedError", "", <<>>)


(***************************************************************************)
(* Inputs of the matcher: the tags and patterns the model draws from.      *)
(***************************************************************************)
BoundedSeq(S, n) == UNION { [1..k -> S] : k \in 0..n }

TagUniverse ==
    { <<"v", "1", ".", "2", ".", "3">>,   \* v1.2.3
      <<"v", "1", ".", "2", ".", "3", ".", "2">>,   \* v1.2.3.2
      <<"v", "1", ".", "2", ".", "9">>,   \* v1.2.9
      <<"v", "1", ".", "2", ".", "1", "0">>,   \* v1.2.10
      <<"v", "1", ".", "1", ".", "1", ".", "1">>,   \* v1.1.1.1
      <<"v", "1", ".", "4", ".", "2">>,   \* v1.4.2
      <<"v", "2", ".", "0", ".", "0">>,   \* v2.0.0
      <<"v", "1", ".", "2">>,   \* v1.2
      <<"1", ".", "2", ".", "3">>,   \* 1.2.3
      <<"v", "1", ".", "2", ".", "b">>,   \* v1.2.b
      <<"x", "1", ".", "5", ".", "0">>,   \* x1.5.0
      <<"v", "1", ".", "2", ".", "0", "3">>,   \* v1.2.03
      <<"v", "1", ".", "-", " ", "2", ".", "\f", "3">>   \* v1.- 2.\x0c3
    }

\* the tag set of the documented examples
ExampleTags ==
    << <<"v", "1", ".", "2", ".", "1">>,
       <<"v", "1", ".", "2", ".", "3">>,
       <<"v", "1", ".", "2", ".", "3", ".", "2">>,
       <<"v", "1", ".", "4", ".", "1">>,
       <<"v", "1", ".", "4", ".", "2", ".", "1">>,
       <<"v", "1", ".", "4", ".", "2", ".", "2">> >>

TagLists == BoundedSeq(TagUniverse, MaxTags) \cup {ExampleTags}

PatternUniverse ==
    { <<"v", "1", ".", "2", ".", "3">>,   \* v1.2.3
      <<"v", "1", ".", "2", ".", "x">>,   \* v1.2.x
      <<"v", "1", ".", "x", ".", "x">>,   \* v1.x.x
      <<"v", "x", ".", "x", ".", "x">>,   \* vx.x.x
      <<"v", "1", ".", "2", ".", "3", ".", "x">>,   \* v1.2.3.x
      <<"v", "1", ".", "x", ".", "x", ".", "x">>,   \* v1.x.x.x
      <<"v", "9", ".", "0", ".", "0">>,   \* v9.0.0
      <<"v", "1", ".", "2", ".", "1", "0">>,   \* v1.2.10
      <<"v", "1", ".", "2">>,   \* v1.2
      <<"1", ".", "2", ".", "3">>,   \* 1.2.3
      <<"v", "1", ".", "x", ".", "2">>,   \* v1.x.2
      <<"v", "x", ".", "1", ".", "1">>,   \* vx.1.1
      <<"v", "1", ".", "x", ".", "2", ".", "x">>,   \* v1.x.2.x
      <<"v", "1", "-", "2", "-", "3">>,   \* v1-2-3
      <<"v", "1", ".", "2", "3", "4">>,   \* v1.234
      <<"v", "1", ".", "2", ".", "3", "\n">>   \* v1.2.3\n
    }

(***************************************************************************)
(* Identity codec: IODescriptorBase.uri_from_dict and dict_from_uri, with  *)
(* the library calls they rest on (urlparse.urlparse, cgi.parse_qs).       *)
(***************************************************************************)
DESCRIPTOR_URI_PATH_SCHEME == <<"s", "g", "t", "k">>

DESCRIPTOR_URI_PATH_PREFIX == <<"d", "e", "s", "c", "r", "i", "p", "t", "o", "r">>

DESCRIPTOR_URI_SEPARATOR == ":"

TypeKey == <<"t", "y", "p", "e">>

LowerChars == <<"a", "b", "c", "d", "e", "f", "g", "h", "i", "j", "k", "l", "m", "n", "o", "p", "q", "r", "s", "t", "u", "v", "w", "x", "y", "z">>

UpperChars == <<"A", "B", "C", "D", "E", "F", "G", "H", "I", "J", "K", "L", "M", "N", "O", "P", "Q", "R", "S", "T", "U", "V", "W", "X", "Y", "Z">>

Range(f) == { f[i] : i \in DOMAIN f }

\* the printable ASCII characters, from code 32 to code 126 (the grave accent,
\* code 96, is written \x60)
AsciiPrintable ==
    << " ", "!", "\"", "#", "$", "%", "&", "'", "(", ")", "*", "+",
       ",", "-", ".", "/", "0", "1", "2", "3", "4", "5", "6", "7",
       "8", "9", ":", ";", "<", "=", ">", "?", "@", "A", "B", "C",
       "D", "E", "F", "G", "H", "I", "J", "K", "L", "M", "N", "O",
       "P", "Q", "R", "S", "T", "U", "V", "W", "X", "Y", "Z", "[",
       "\\", "]", "^", "_", "\\x60", "a", "b", "c", "d", "e", "f", "g",
       "h", "i", "j", "k", "l", "m", "n", "o", "p", "q", "r", "s",
       "t", "u", "v", "w", "x", "y", "z", "{", "|", "}", "~" >>

HexChars == <<"0", "1", "2", "3", "4", "5", "6", "7", "8", "9",
              "a", "b", "c", "d", "e", "f">>

IsHex(c) == c \in Digits \cup Range(SubSeq(LowerChars, 1, 6)) \cup Range(SubSeq(UpperChars, 1, 6))

HexVal(c) ==
    IF c \in Digits THEN DigitVal(c)
    ELSE IF c \in Range(LowerChars) THEN 9 + (CHOOSE i \in 1..6 : LowerChars[i] = c)
    ELSE 9 + (CHOOSE i \in 1..6 : UpperChars[i] = c)

\* chr(n); a character outside the printable range is written \xhh
Chr(n) ==
    IF n \in 32..126 THEN AsciiPrintable[n - 31]
    ELSE IF n = 10 THEN "\n"
    ELSE IF n = 9 THEN "\t"
    ELSE IF n = 13 THEN "\r"
    ELSE IF n = 12 THEN "\f"
    ELSE "\\x" \o HexChars[(n \div 16) + 1] \o HexChars[(n % 16) + 1]

\* c.lower()
Lower(c) ==
    IF c \in Range(UpperChars)
    THEN LowerChars[CHOOSE i \in 1..26 : UpperChars[i] = c]
    ELSE c

\* s.replace(a, b) for one-character a and b
Replace(s, a, b) == [i \in 1..Len(s) |-> IF s[i] = a THEN b ELSE s[i]]

\* urllib.unquote(s)
UnquoteBit(item) ==
    IF Len(item) >= 2 /\ IsHex(item[1]) /\ IsHex(item[2])
    THEN <<Chr(16 * HexVal(item[1]) + HexVal(item[2]))>> \o Drop(item, 2)
    ELSE <<"%">> \o item

Unquote(s) ==
    LET bits == Split(s, "%")
    IN  bits[1] \o Join([i \in 1..(Len(bits) - 1) |-> UnquoteBit(bits[i + 1])], <<>>)

\* the characters a URL scheme may consist of
SchemeChars == Range(LowerChars) \cup Range(UpperChars) \cup Digits \cup {"+", "-", "."}

\* the position of the first of "/", "?", "#" at or after position 3 of url,
\* Len(url) + 1 when there is none
NetlocEnd(url) ==
    LET hits == { i \in 3..Len(url) : url[i] \in {"/", "?", "#"} }
    IN  IF hits = {} THEN Len(url) + 1
        ELSE CHOOSE i \in hits : \A j \in hits : i <= j

\* urlparse.uses_params: the schemes whose path may carry ";parameters"
UsesParams ==
    { <<"f", "t", "p">>,
      <<"h", "d", "l">>,
      <<"p", "r", "o", "s", "p", "e", "r", "o">>,
      <<"h", "t", "t", "p">>,
      <<"i", "m", "a", "p">>,
      <<"h", "t", "t", "p", "s">>,
      <<"s", "h", "t", "t", "p">>,
      <<"r", "t", "s", "p">>,
      <<"r", "t", "s", "p", "u">>,
      <<"s", "i", "p">>,
      <<"s", "i", "p", "s">>,
      <<"m", "m", "s">>,
      <<>>,
      <<"s", "f", "t", "p">>,
      <<"t", "e", "l">> }

\* s.rfind(c) + 1: the last position of c in s, 0 when absent
RFind(s, c) ==
    IF Contains(s, c) THEN Max({ i \in 1..Len(s) : s[i] = c }) ELSE 0

\* urlparse._splitparams(url) for a url that has a ";": the path and the
\* parameters, split at the first ";" of the last path segment
SplitParams(url) ==
    LET from == IF Contains(url, "/") THEN RFind(url, "/") ELSE 1
        hits == { i \in from..Len(url) : url[i] = ";" }
        i == CHOOSE j \in hits : \A k \in hits : j <= k
    IN  IF hits = {} THEN <<url, <<>>>>
        ELSE <<SubSeq(url, 1, i - 1), Drop(url, i)>>

\* urlparse.urlparse(uri): urlsplit takes the scheme (without more ado when
\* it is http, else when it is made of scheme characters and what follows
\* the colon is not a port number), then the network location, the fragment
\* and the query off what remains, in this order; urlparse then takes the
\* parameters off the path
UrlParse(u) ==
    LET i == Find(u, ":")
        rest == Drop(u, i)
        hasScheme ==
            /\ i > 1
            /\ \/ SubSeq(u, 1, i - 1) = <<"h", "t", "t", "p">>
               \/ /\ \A k \in 1..(i - 1) : u[k] \in SchemeChars
                  /\ rest = <<>> \/ \E k \in 1..Len(rest) : rest[k] \notin Digits
        scheme == IF hasScheme THEN [k \in 1..(i - 1) |-> Lower(u[k])] ELSE <<>>
        url1 == IF hasScheme THEN rest ELSE u
        hasNetloc == Len(url1) >= 2 /\ url1[1] = "/" /\ url1[2] = "/"
        netloc == IF hasNetloc THEN SubSeq(url1, 3, NetlocEnd(url1) - 1) ELSE <<>>
        url2 == IF hasNetloc THEN Drop(url1, NetlocEnd(url1) - 1) ELSE url1
        url3 == Split1(url2, "#")[1]
        fragment == IF Contains(url2, "#") THEN Split1(url2, "#")[2] ELSE <<>>
        url4 == Split1(url3, "?")[1]
        query == IF Contains(url3, "?") THEN Split1(url3, "?")[2] ELSE <<>>
        hasParams == scheme \in UsesParams /\ Contains(url4, ";")
    IN  [ok |-> ~(Contains(netloc, "[") /\ ~Contains(netloc, "]"))
                /\ ~(Contains(netloc, "]") /\ ~Contains(netloc, "[")),
         scheme |-> scheme, netloc |-> netloc,
         path |-> IF hasParams THEN SplitParams(url4)[1] ELSE url4,
         params |-> IF hasParams THEN SplitParams(url4)[2] ELSE <<>>,
         query |-> query, fragment |-> fragment]

\* [s2 for s1 in qs.split('&') for s2 in s1.split(';')]
RECURSIVE Flatten(_)
Flatten(ss) == IF Len(ss) = 0 THEN <<>> ELSE ss[1] \o Flatten(Tail(ss))

QueryPairs(qs) ==
    LET byAmp == Split(qs, "&")
    IN  Flatten([i \in 1..Len(byAmp) |-> Split(byAmp[i], ";")])

\* whether parse_qsl keeps a field: it has an "=" and a non-blank value
FieldKept(name_value) ==
    /\ Len(name_value) > 0
    /\ Contains(name_value, "=")
    /\ Len(Split1(name_value, "=")[2]) > 0

FieldName(name_value) == Unquote(Replace(Split1(name_value, "=")[1], "+", " "))

FieldValue(name_value) == Unquote(Replace(Split1(name_value, "=")[2], "+", " "))

\* urlparse.parse_qsl(qs): the kept (name, value) pairs in order
RECURSIVE KeptFields(_)
KeptFields(pairs) ==
    IF Len(pairs) = 0 THEN <<>>
    ELSE IF FieldKept(pairs[1])
         THEN <<(<<FieldName(pairs[1]), FieldValue(pairs[1])>>)>> \o KeptFields(Tail(pairs))
         ELSE KeptFields(Tail(pairs))

\* values of the fields of the sequence that carry the given name, in order
RECURSIVE ValuesOf(_, _)
ValuesOf(fields, name) ==
    IF Len(fields) = 0 THEN <<>>
    ELSE IF fields[1][1] = name THEN <<fields[1][2]>> \o ValuesOf(Tail(fields), name)
    ELSE ValuesOf(Tail(fields), name)

\* cgi.parse_qs(query): name -> list of values
ParseQs(qs) ==
    LET fields == KeptFields(QueryPairs(qs))
    IN  [name \in { fields[i][1] : i \in 1..Len(fields) } |-> ValuesOf(fields, name)]

\* the dictionary dict_from_uri returns
DictFromQuery(type, params) ==
    [k \in {TypeKey} \cup DOMAIN params |->
        IF k \in DOMAIN params THEN params[k][1] ELSE type]

dict_from_uri(u) ==
    LET parsed_uri == UrlParse(u)
        inPath == Split(parsed_uri.path, "?")
        path == IF parsed_uri.query = <<>> THEN inPath[1] ELSE parsed_uri.path
        query == IF parsed_uri.query = <<>> THEN inPath[2] ELSE parsed_uri.query
        split_path == Split(path, DESCRIPTOR_URI_SEPARATOR)
    IN  IF ~parsed_uri.ok
        THEN Raise("ValueError", "Invalid IPv6 URL", <<>>)
        ELSE IF parsed_uri.scheme # DESCRIPTOR_URI_PATH_SCHEME
        THEN Raise("TankDescriptorError", "must begin with 'sgtk'", <<>>)
        ELSE IF parsed_uri.query = <<>> /\ Len(inPath) # 2
        THEN Raise("ValueError", "unpack", <<>>)
        ELSE IF Len(split_path) # 2 \/ split_path[1] # DESCRIPTOR_URI_PATH_PREFIX
        THEN Raise("TankDescriptorError", "must begin with sgtk:descriptor", <<>>)
        ELSE IF \E k \in DOMAIN ParseQs(query) : Len(ParseQs(query)[k]) > 1
        THEN Raise("TankDescriptorError", "duplicate parameters", <<>>)
        ELSE Return(DictFromQuery(split_path[2], ParseQs(query)))

\* a validation that also refuses the keys it does not know
RaisesOnUnsupported(d, required, optional) ==
    LET desc_keys_set == DOMAIN d
        all_keys == required \cup optional
    IN  IF ~(required \subseteq desc_keys_set) \/ desc_keys_set \ all_keys # {}
        THEN [out |-> Raise("TankDescriptorError", "missing required keys", <<>>),
              warnings |-> 0]
        ELSE [out |-> Return(None), warnings |-> 0]

\* _validate_descriptor, required and optional as the sets it makes of them:
\* its outcome and the number of warnings it logs
validate_descriptor(d, required, optional) ==
    LET desc_keys_set == DOMAIN d
        required_set == required
        optional_set == optional
        all_keys == required_set \cup optional_set
    IN  IF ~(required_set \subseteq desc_keys_set)
        THEN [out |-> Raise("TankDescriptorError", "missing required keys", <<>>),
              warnings |-> 0]
        ELSE [out |-> Return(None),
              warnings |-> IF desc_keys_set \ all_keys # {} THEN 1 ELSE 0]

\* a serialization that does not skip the "type" key in the query string
TypeAlsoInQuery(d, items) ==
    IF TypeKey \notin DOMAIN d
    THEN Raise("TankDescriptorError", "missing type field", <<>>)
    ELSE LET head == Join(<<DESCRIPTOR_URI_PATH_SCHEME, DESCRIPTOR_URI_PATH_PREFIX,
                            d[TypeKey]>>, <<DESCRIPTOR_URI_SEPARATOR>>)
             qs_chunks == [i \in 1..Len(items) |-> items[i] \o <<"=">> \o d[items[i]]]
         IN  Return(head \o <<"?">> \o Join(qs_chunks, <<"&">>))

\* uri_from_dict; items is the order in which the dictionary yields its keys
uri_from_dict(d, items) ==
    IF TypeKey \notin DOMAIN d
    THEN Raise("TankDescriptorError", "missing type field", <<>>)
    ELSE LET head == Join(<<DESCRIPTOR_URI_PATH_SCHEME, DESCRIPTOR_URI_PATH_PREFIX,
                            d[TypeKey]>>, <<DESCRIPTOR_URI_SEPARATOR>>)
             params == SelectSeq(items, LAMBDA k : k # TypeKey)
             qs_chunks == [i \in 1..Len(params) |-> params[i] \o <<"=">> \o d[params[i]]]
         IN  Return(head \o <<"?">> \o Join(qs_chunks, <<"&">>))


(***************************************************************************)
(* Descriptor life cycle: IODescriptorBase.get_path, exists_local,         *)
(* ensure_local and get_manifest of one instance, over the metadata files  *)
(* at its candidate cache paths and a provider (download_local).           *)
(***************************************************************************)
BUNDLE_METADATA_FILE == "info.yml"

\* the RuntimeError of _get_legacy_bundle_install_folder
UnknownBundleType == <<"RuntimeError">>

\* a legacy folder with the descriptor name ahead of the legacy directory
LegacyDirSecond(descriptor_name, install_cache_root, bundle_type, bundle_name, bundle_version) ==
    IF bundle_type \notin {"APP", "ENGINE", "FRAMEWORK"} THEN UnknownBundleType
    ELSE LET legacy_dir == CASE bundle_type = "APP" -> "apps"
                             [] bundle_type = "ENGINE" -> "engines"
                             [] bundle_type = "FRAMEWORK" -> "frameworks"
         IN  <<install_cache_root, descriptor_name, legacy_dir, bundle_name, bundle_version>>

\* _get_legacy_bundle_install_folder: the legacy folder as a list of path
\* components
get_legacy_bundle_install_folder(descriptor_name, install_cache_root, bundle_type, bundle_name, bundle_version) ==
    IF bundle_type \notin {"APP", "ENGINE", "FRAMEWORK"} THEN UnknownBundleType
    ELSE LET legacy_dir == CASE bundle_type = "APP" -> "apps"
                             [] bundle_type = "ENGINE" -> "engines"
                             [] bundle_type = "FRAMEWORK" -> "frameworks"
         IN  <<install_cache_root, legacy_dir, descriptor_name, bundle_name, bundle_version>>

\* the cache path resolver: for every root in order the new-style path
\* root/type/name/version, then the legacy path of the root
RECURSIVE CandidatesOfRoots(_, _)
CandidatesOfRoots(roots, bundle) ==
    IF Len(roots) = 0 THEN <<>>
    ELSE << <<roots[1], bundle.type, bundle.name, bundle.version>>,
            get_legacy_bundle_install_folder(bundle.type, roots[1], bundle.bundle_type,
                                             bundle.name, bundle.version) >>
         \o CandidatesOfRoots(Tail(roots), bundle)

\* the resolver's outcome: the candidate sequence, or the RuntimeError of the
\* legacy folder
ResolveCachePaths(roots, bundle) ==
    IF \E i \in 1..Len(CandidatesOfRoots(roots, bundle)) :
          CandidatesOfRoots(roots, bundle)[i] = UnknownBundleType
    THEN Raise("RuntimeError", "Unknown bundle type", <<>>)
    ELSE Return(CandidatesOfRoots(roots, bundle))

\* _get_cache_paths of the modelled instance: the candidate paths of its
\* bundle, the primary location first, then the alternative locations
get_cache_paths == <<"primary", "alternative1", "alternative2">>

\* where download_local of the modelled instance puts the bundle
DownloadTarget == get_cache_paths[1]

\* content of a metadata file at the download target: a manifest, an empty
\* file, a file that is no YAML; Absent when there is no file
Absent == "absent"

FileContents == {"m1", "empty", "invalid"}

\* what the environment may put at a candidate path: at the download target
\* what a download may put there, elsewhere the manifest of that copy
ContentsAt(path) ==
    IF path = DownloadTarget THEN FileContents
    ELSE IF path = get_cache_paths[2] THEN {"m2"}
    ELSE {"m3"}

\* yaml.load of a metadata file that parses: an empty file loads as None
YamlLoad(content) == IF content = "empty" THEN None ELSE content

\* a lookup that keeps going and ends up with the last candidate that has the
\* metadata file
RECURSIVE LastWithMetadata(_, _)
LastWithMetadata(files, paths) ==
    IF Len(paths) = 0 THEN None
    ELSE IF files[paths[Len(paths)]] # Absent THEN paths[Len(paths)]
    ELSE LastWithMetadata(files, SubSeq(paths, 1, Len(paths) - 1))

\* the loop of get_path: the candidates in order, returning at the first one
\* whose metadata file exists, None after the last
RECURSIVE FirstWithMetadata(_, _)
FirstWithMetadata(files, paths) ==
    IF Len(paths) = 0 THEN None
    ELSE IF files[paths[1]] # Absent THEN paths[1]
    ELSE FirstWithMetadata(files, Tail(paths))

\* get_path on files that do not change while its loop runs, or on what
\* the tests of its loop have found: the first candidate with a metadata
\* file, or None
get_path(files) == FirstWithMetadata(files, get_cache_paths)

exists_local(files) == get_path(files) # None

\* what one download_local() call does: it raises, it returns having put no
\* metadata file, or it returns having put one at the download target
DownloadOutcomes ==
    { [result |-> "raise", content |-> Absent],
      [result |-> "return", content |-> Absent] }
    \cup { [result |-> "return", content |-> c] : c \in FileContents }

AfterDownload(files, dl) ==
    IF dl.result = "return" /\ dl.content # Absent
    THEN [files EXCEPT ![DownloadTarget] = dl.content]
    ELSE files

\* the record kept of the most recent step
Call(op, kind, error, value, prior, probed, was_local, downloaded, dl_returned, read, local_after) ==
    [op |-> op, kind |-> kind, error |-> error, value |-> value, prior |-> prior,
     probed |-> probed, was_local |-> was_local, downloaded |-> downloaded,
     dl_returned |-> dl_returned, read |-> read, local_after |-> local_after]

NoCallYet ==
    Call("init", "none", "", "n/a", "unset", FALSE, FALSE, FALSE, FALSE, FALSE, FALSE)

\* the record while a call is under way and has not ended
Calling ==
    Call("call", "none", "", "n/a", "unset", FALSE, FALSE, FALSE, FALSE, FALSE, FALSE)

EnvStep(files) ==
    Call("env", "none", "", "n/a", "unset", FALSE, FALSE, FALSE, FALSE, FALSE,
         exists_local(files))

\* the identities the modelled instances are constructed with
ConstructedWith ==
    { (<<"t", "y", "p", "e">> :> <<"g", "i", "t">>)
        @@ (<<"p", "a", "t", "h">> :> <<"f", "o", "o">>),   \* {type: git, path: foo}
      (<<"p", "a", "t", "h">> :> <<"f", "o", "o">>)   \* {path: foo}
    }

\* the cache roots set_cache_roots may be given
PrimaryRoots == {"P1", "P2"}

FallbackRootLists == {<<"F1">>}

\* __init__: the fields of a new instance
NewInstance(descriptor_dict_arg) ==
    [descriptor_dict |-> descriptor_dict_arg,
     bundle_cache_root |-> None,
     fallback_roots |-> <<>>]

\* what a lookup has found so far: nothing
NoneSeen == [p \in Range(get_cache_paths) |-> Absent]

\* the descriptor call under way: the operation, the statement it is at, the
\* turn of the loop of get_path and what the loop has found, the local
\* bundle_root of get_manifest; whether some candidate held the metadata
\* file when the call began, whether download_local() was called and
\* returned, the candidate paths whose metadata file the environment wrote
\* or deleted since the call began, the candidate paths that were without
\* a metadata file at some moment since the call began, and what the first
\* candidate with a metadata file was at the moments since the call began
NoCall ==
    [op |-> "none", pc |-> "idle", i |-> 1, seen |-> NoneSeen, bundle_root |-> None,
     was_local |-> FALSE, downloaded |-> FALSE, dl_returned |-> FALSE, touched |-> {},
     lacked |-> {}, firsts |-> {}]

InitDescriptor ==
    /\ manifest_data = None
    /\ fs = [p \in Range(get_cache_paths) |-> Absent]
    /\ download_calls = 0
    /\ first_manifest = "unset"
    /\ last = NoCallYet
    /\ call = NoCall
    /\ self \in { NewInstance(d) : d \in ConstructedWith }

(***************************************************************************)
(* TankPerforceDescriptor: exists_local and download_local over the local  *)
(* folder of the bundle and the files of its depot path.                   *)
(***************************************************************************)
\* the record kept of the most recent call on the Perforce descriptor
P4Call(op, kind, value, synced) ==
    [op |-> op, kind |-> kind, value |-> value, synced |-> synced]

\* the threads that may call download_local() on the same descriptor
P4Threads == 1..MaxP4Threads

\* the file mode creation mask of the process: the one it was started
\* with, or 0
Umasks == {"inherited", "zero"}

\* a thread that is not inside download_local(); old_umask is its local
\* variable of that name
P4Idle == [pc |-> "idle", next |-> 1, old_umask |-> "inherited"]

\* the local copy before any call: no target folder; files are the depot
\* files written under it, depot_files is the number of files under the
\* depot path, completed tells whether some download_local() has returned
\* after its sync since the folder was last removed, umask is the file mode
\* creation mask of the process, calls holds where each thread stands
\* inside download_local()
NewLocalCopy(depot_files) ==
    [folder |-> FALSE, files |-> {}, depot_files |-> depot_files,
     completed |-> FALSE, downloads |-> 0, umask |-> "inherited",
     last |-> P4Call("init", "none", "n/a", FALSE),
     calls |-> [t \in P4Threads |-> P4Idle]]

\* TankPerforceDescriptor.exists_local: os.path.exists(self.get_path())
p4_exists_local(copy) == copy.folder

\* download_local, lines 83-85: return at once when the folder exists,
\* go on to the makedirs test otherwise
p4_check(copy, t) ==
    IF p4_exists_local(copy)
    THEN [copy EXCEPT !.last = P4Call("download_local", "return", "n/a", FALSE)]
    ELSE [copy EXCEPT !.calls[t].pc = "test",
                      !.downloads = copy.downloads + 1]

\* download_local, lines 87-88: "if not os.path.exists(target)" on the
\* folder as it is at that moment
p4_test(copy, t) ==
    [copy EXCEPT !.calls[t].pc = IF copy.folder THEN "connect" ELSE "umask"]

\* download_local, line 89: old_umask = os.umask(0)
p4_umask(copy, t) ==
    [copy EXCEPT !.calls[t].old_umask = copy.umask,
                 !.calls[t].pc = "makedirs",
                 !.umask = "zero"]

\* download_local, line 90: os.makedirs(target, 0777) raises OSError when
\* the folder is there by now, or for another reason (raises), and the call
\* ends without line 91; else it makes the folder
p4_makedirs(copy, t, raises) ==
    IF copy.folder \/ raises
    THEN [copy EXCEPT !.calls[t] = P4Idle,
                      !.last = P4Call("download_local", "OSError", "n/a", FALSE)]
    ELSE [copy EXCEPT !.folder = TRUE, !.calls[t].pc = "restore"]

\* download_local, line 91: os.umask(old_umask)
p4_restore(copy, t) ==
    [copy EXCEPT !.umask = copy.calls[t].old_umask,
                 !.calls[t].pc = "connect"]

\* __sync_from_perforce, lines 211-214: connect and list the depot files;
\* raises tells that p4.connect() or p4.run_files raises
p4_connect(copy, t, raises) ==
    IF raises
    THEN [copy EXCEPT !.calls[t] = P4Idle,
                      !.last = P4Call("download_local", "P4Exception", "n/a", TRUE)]
    ELSE [copy EXCEPT !.calls[t].pc = "print"]

\* __sync_from_perforce, lines 215-217: one p4.run_print of the loop, which
\* writes the file (and the folders above it) or raises; after the last
\* file download_local() returns
p4_print(copy, t, raises) ==
    LET k == copy.calls[t].next
        done == k = copy.depot_files
    IN  IF raises
        THEN [copy EXCEPT !.calls[t] = P4Idle,
                          !.last = P4Call("download_local", "P4Exception", "n/a", TRUE)]
        ELSE [copy EXCEPT
                !.folder = TRUE,
                !.files = copy.files \cup {k},
                !.calls[t] = IF done THEN P4Idle
                             ELSE [copy.calls[t] EXCEPT !.next = k + 1],
                !.completed = copy.completed \/ done,
                !.last = IF done
                         THEN P4Call("download_local", "return", "n/a", TRUE)
                         ELSE copy.last]

(***************************************************************************)
(* Inputs of the codec: the identities and the URI strings the model       *)
(* draws from.                                                             *)
(***************************************************************************)
ExtraKeys ==
    { <<"n", "a", "m", "e">>,   \* name
      <<"v", "e", "r", "s", "i", "o", "n">>,   \* version
      <<"p", "a", "t", "h">>   \* path
    }

TypeValues ==
    { <<"a", "p", "p", "_", "s", "t", "o", "r", "e">>,   \* app_store
      <<"g", "i", "t">>,   \* git
      <<"d", "e", "v", ":", "1">>   \* dev:1
    }

ValueUniverse ==
    { <<"f", "o", "o">>,   \* foo
      <<"v", "1", ".", "2", ".", "3">>,   \* v1.2.3
      <<>>,   \* the empty string
      <<"a", "+", "b">>,   \* a+b
      <<"%", "4", "1">>,   \* %41
      <<"a", "#", "b">>,   \* a#b
      <<"a", ";", "b">>,   \* a;b
      <<"a", "&", "b", "=", "c">>   \* a&b=c
    }

KeySets ==
    { K \in SUBSET (ExtraKeys \cup {TypeKey}) : Cardinality(K \ {TypeKey}) <= MaxExtraKeys }

Identities ==
    UNION { { d \in [K -> TypeValues \cup ValueUniverse] :
                \A k \in K : d[k] \in (IF k = TypeKey THEN TypeValues ELSE ValueUniverse) } :
            K \in KeySets }

UriUniverse ==
    { <<"s", "g", "t", "k", ":", "d", "e", "s", "c", "r", "i", "p", "t", "o", "r", ":", "a", "p", "p", "_", "s", "t", "o", "r", "e", "?", "n", "a", "m", "e", "=", "f", "o", "o", "&", "v", "e", "r", "s", "i", "o", "n", "=", "v", "1", ".", "2", ".", "3">>,   \* sgtk:descriptor:app_store?name=foo&version=v1.2.3
      <<"s", "g", "t", "k", ":", "d", "e", "s", "c", "r", "i", "p", "t", "o", "r", ":", "a", "p", "p", "_", "s", "t", "o", "r", "e">>,   \* sgtk:descriptor:app_store
      <<"s", "g", "t", "k", ":", "d", "e", "s", "c", "r", "i", "p", "t", "o", "r", ":", "a", "p", "p", "_", "s", "t", "o", "r", "e", "?">>,   \* sgtk:descriptor:app_store?
      <<"h", "t", "t", "p", ":", "d", "e", "s", "c", "r", "i", "p", "t", "o", "r", ":", "a", "p", "p", "_", "s", "t", "o", "r", "e", "?", "n", "a", "m", "e", "=", "f", "o", "o">>,   \* http:descriptor:app_store?name=foo
      <<"h", "t", "t", "p", ":", "d", "e", "s", "c", "r", "i", "p", "t", "o", "r", ":", "a", "p", "p", "_", "s", "t", "o", "r", "e">>,   \* http:descriptor:app_store
      <<"d", "e", "s", "c", "r", "i", "p", "t", "o", "r", ":", "a", "p", "p", "_", "s", "t", "o", "r", "e", "?", "n", "a", "m", "e", "=", "f", "o", "o">>,   \* descriptor:app_store?name=foo
      <<"s", "g", "t", "k", ":", "f", "o", "o", ":", "a", "p", "p", "_", "s", "t", "o", "r", "e", "?", "n", "a", "m", "e", "=", "f", "o", "o">>,   \* sgtk:foo:app_store?name=foo
      <<"s", "g", "t", "k", ":", "f", "o", "o", ":", "a", "p", "p", "_", "s", "t", "o", "r", "e">>,   \* sgtk:foo:app_store
      <<"s", "g", "t", "k", ":", "d", "e", "s", "c", "r", "i", "p", "t", "o", "r", "?", "n", "a", "m", "e", "=", "f", "o", "o">>,   \* sgtk:descriptor?name=foo
      <<"s", "g", "t", "k", ":", "d", "e", "s", "c", "r", "i", "p", "t", "o", "r", ":", "a", ":", "b", "?", "n", "a", "m", "e", "=", "f", "o", "o">>,   \* sgtk:descriptor:a:b?name=foo
      <<"s", "g", "t", "k", ":", "d", "e", "s", "c", "r", "i", "p", "t", "o", "r", ":", "g", "i", "t", "?", "n", "a", "m", "e", "=", "f", "o", "o", "&", "n", "a", "m", "e", "=", "b", "a", "r">>,   \* sgtk:descriptor:git?name=foo&name=bar
      <<"s", "g", "t", "k", ":", "d", "e", "s", "c", "r", "i", "p", "t", "o", "r", ":", "g", "i", "t", "?", "n", "a", "m", "e", "=", "f", "o", "o", ";", "n", "a", "m", "e", "=", "b", "a", "r">>,   \* sgtk:descriptor:git?name=foo;name=bar
      <<"s", "g", "t", "k", ":", "d", "e", "s", "c", "r", "i", "p", "t", "o", "r", ":", "g", "i", "t", "?", "n", "a", "m", "e", "=", "f", "o", "o", "&", "n", "a", "m", "e", "=">>,   \* sgtk:descriptor:git?name=foo&name=
      <<"s", "g", "t", "k", ":", "d", "e", "s", "c", "r", "i", "p", "t", "o", "r", ":", "g", "i", "t", "?", "t", "y", "p", "e", "=", "h", "g">>,   \* sgtk:descriptor:git?type=hg
      <<"s", "g", "t", "k", ":", "d", "e", "s", "c", "r", "i", "p", "t", "o", "r", ":", "g", "i", "t", "?", "n", "a", "m", "e">>,   \* sgtk:descriptor:git?name
      <<"s", "g", "t", "k", ":", "d", "e", "s", "c", "r", "i", "p", "t", "o", "r", ":", "g", "i", "t", "#", "f", "?", "n", "a", "m", "e", "=", "f", "o", "o">>,   \* sgtk:descriptor:git#f?name=foo
      <<"S", "G", "T", "K", ":", "d", "e", "s", "c", "r", "i", "p", "t", "o", "r", ":", "g", "i", "t", "?", "n", "a", "m", "e", "=", "f", "o", "o">>,   \* SGTK:descriptor:git?name=foo
      <<"s", "g", "t", "k", ":", "/", "/", "h", "o", "s", "t", "/", "d", "e", "s", "c", "r", "i", "p", "t", "o", "r", ":", "g", "i", "t", "?", "n", "a", "m", "e", "=", "f", "o", "o">>,   \* sgtk://host/descriptor:git?name=foo
      <<"s", "g", "t", "k", ":", "/", "/", "[", "h", "o", "s", "t", "/", "d", "e", "s", "c", "r", "i", "p", "t", "o", "r", ":", "g", "i", "t", "?", "n", "a", "m", "e", "=", "f", "o", "o">>,   \* sgtk://[host/descriptor:git?name=foo
      <<"s", "g", "t", "k", ":", "d", "e", "s", "c", "r", "i", "p", "t", "o", "r", ":", "g", "i", "t", "?", "n", "a", "%", "6", "d", "e", "=", "f", "o", "o", "&", "n", "a", "m", "e", "=", "b", "a", "r">>,   \* sgtk:descriptor:git?na%6de=foo&name=bar
      <<"s", "g", "t", "k", ":">>,   \* sgtk:
      <<>>   \* the empty string
    }

\* the orders in which a dictionary with the key set S may yield its keys
Perms(S) ==
    { f \in [1..Cardinality(S) -> S] : \A i, j \in 1..Cardinality(S) : i # j => f[i] # f[j] }

(***************************************************************************)
(* CoreImportHandler: sys.modules, the cores on disk, the handler's fields *)
(* and the two threads, one calling set_core_path and one importing.       *)
(***************************************************************************)
\* module names: a package of the handler's namespaces, a module of that
\* package, a module outside the namespaces
TankModule == <<"t", "a", "n", "k">>

TankUtilModule == <<"t", "a", "n", "k", ".", "u", "t", "i", "l">>

OsModule == <<"o", "s">>

ModuleNames == {TankModule, TankUtilModule, OsModule}

\* self._namespaces
Namespaces == {TankModule}

\* module.split(".")[0]
PackageName(module) == Split(module, ".")[1]

InNamespaces(module) == PackageName(module) \in Namespaces

NamespaceModules == { m \in ModuleNames : InNamespaces(m) }

IsTopLevel(module) == Len(Split(module, ".")) = 1

\* the package a module lies in
ParentOf(module) ==
    Join(SubSeq(Split(module, "."), 1, Len(Split(module, ".")) - 1), <<".">>)

\* core paths given to the handler: A and B are directories, C does not exist
CorePaths == {"A", "B", "C"}

ExistingCores == {"A", "B"}

\* os.path.exists(path)
path_exists(path) == path \in ExistingCores

\* the file of a module under a core (for a package its __init__.py):
\* importable, not there, raising SyntaxError when it is executed (broken),
\* or not compiling at all (uncompilable)
FileStates == {"ok", "missing", "broken", "uncompilable"}

\* the cores on disk: A holds every namespace module; B may lack or break any
\* of them, a module of a package that is not there is not there either
Disks ==
    { d \in [ExistingCores -> [NamespaceModules -> FileStates]] :
        /\ \A m \in NamespaceModules : d["A"][m] = "ok"
        /\ d["B"][TankModule] = "missing" => d["B"][TankUtilModule] = "missing" }

\* sys.path: the core the interpreter was started with, or no core at all
SysPaths == {<<"A">>, <<>>}

\* imp.find_module(module_name, [path]) under a core path
ModuleFile(disk, path, module) ==
    IF path \in DOMAIN disk THEN disk[path][module] ELSE "missing"

\* an entry of sys.modules: where the module was loaded from and by which
\* importer; NotImported when sys.modules has no such key
Loaded(from, loader) == [from |-> from, loader |-> loader]

NotImported == Loaded(None, None)

\* find_module: the core path kept in _module_info for load_module, or None
\* for a module outside the namespaces or one imp.find_module does not find
find_module(disk, core_path, module) ==
    IF ~InNamespaces(module) THEN None
    ELSE IF ModuleFile(disk, core_path, module) = "missing" THEN None
    ELSE core_path

\* a module with modules below it, which imp.load_module loads with
\* load_package
IsPackage(module) == \E m \in ModuleNames : ~IsTopLevel(m) /\ ParentOf(m) = module

\* imp.load_module(name, ...) up to the point where the code of the module
\* starts to run: a plain module that does not compile raises before
\* sys.modules is touched; otherwise the module is in sys.modules from here
\* on, a new entry or the entry that was there given the new location
load_begin(disk, location, modules, module) ==
    IF ModuleFile(disk, location, module) = "uncompilable" /\ ~IsPackage(module)
    THEN [started |-> FALSE, modules |-> modules]
    ELSE [started |-> TRUE,
          modules |-> [modules EXCEPT ![module] =
                          Loaded(location,
                                 IF modules[module] = NotImported THEN "default"
                                 ELSE modules[module].loader)]]

\* load_module, lines 158 and 171: sys.modules.setdefault(module_fullname,
\* <the module imp.load_module returned>) puts the module loaded from
\* location back when its key has gone from sys.modules in the meantime,
\* and the module is given the handler as its __loader__
setdefault(modules, module, location) ==
    IF modules[module] = NotImported
    THEN [modules EXCEPT ![module] = Loaded(location, "handler")]
    ELSE [modules EXCEPT ![module].loader = "handler"]

\* the rest of imp.load_module(name, ...) and what the importer loader does
\* with the module: an __init__.py that does not compile leaves the package
\* as load_begin made it; a file that raises when it is executed takes the
\* module out of sys.modules; a module that is no longer in sys.modules
\* after its code has run gives ImportError; the handler goes on to its
\* setdefault and sets __loader__
load_end(disk, location, modules, module, loader) ==
    LET file == ModuleFile(disk, location, module)
    IN  CASE file = "uncompilable" ->
               [kind |-> "SyntaxError", modules |-> modules]
          [] file = "broken" ->
               [kind |-> "SyntaxError",
                modules |-> [modules EXCEPT ![module] = NotImported]]
          [] file = "missing" ->
               [kind |-> "ImportError", modules |-> modules]
          [] file = "ok" ->
               IF modules[module] = NotImported
               THEN [kind |-> "ImportError", modules |-> modules]
               ELSE [kind |-> "return",
                     modules |-> IF loader = "handler"
                                 THEN setdefault(modules, module, location)
                                 ELSE modules]

\* imp.load_module(name, ...) of the file found under location, run from
\* start to end with no other thread in between: the kind of outcome and
\* sys.modules after it
imp_load_module(disk, location, modules, module, loader) ==
    IF ModuleFile(disk, location, module) = "missing"
    THEN [kind |-> "ImportError", modules |-> modules]
    ELSE IF ~load_begin(disk, location, modules, module).started
    THEN [kind |-> "SyntaxError", modules |-> modules]
    ELSE load_end(disk, location, load_begin(disk, location, modules, module).modules,
                  module, loader)

\* load_module: the outcome, sys.modules and _module_info after it
load_module(disk, module_info, modules, module) ==
    IF module_info[module] = None
    THEN [kind |-> "KeyError", modules |-> modules, module_info |-> module_info]
    ELSE LET loaded == imp_load_module(disk, module_info[module], modules, module, "handler")
         IN  [kind |-> loaded.kind, modules |-> loaded.modules,
              module_info |-> [module_info EXCEPT ![module] = None]]

\* where the default import mechanism looks for a module: a top-level
\* package on sys.path, a module of a package in the directory its package
\* was loaded from
DefaultLocation(sys_path, modules, module) ==
    IF IsTopLevel(module)
    THEN (IF Len(sys_path) > 0 THEN sys_path[1] ELSE None)
    ELSE modules[ParentOf(module)].from

\* the default import mechanism, tried when find_module returned None
RegularImport(disk, sys_path, module_info, modules, module) ==
    LET loaded == imp_load_module(disk, DefaultLocation(sys_path, modules, module),
                                  modules, module, "default")
    IN  [kind |-> loaded.kind, modules |-> loaded.modules, module_info |-> module_info]

\* the import of one module whose package is in sys.modules: nothing for a
\* module already there, else find_module and load_module of the handler, or
\* the default mechanism
ImportOne(disk, sys_path, core_path, module_info, modules, module) ==
    IF modules[module] # NotImported
    THEN [kind |-> "return", modules |-> modules, module_info |-> module_info]
    ELSE IF find_module(disk, core_path, module) = None
    THEN RegularImport(disk, sys_path, module_info, modules, module)
    ELSE load_module(disk,
                     [module_info EXCEPT ![module] = find_module(disk, core_path, module)],
                     modules, module)

\* __import__(module): the package first, then the module
Import(disk, sys_path, core_path, module_info, modules, module) ==
    IF IsTopLevel(module)
    THEN ImportOne(disk, sys_path, core_path, module_info, modules, module)
    ELSE LET package == ImportOne(disk, sys_path, core_path, module_info, modules,
                                  ParentOf(module))
         IN  IF package.kind # "return" THEN package
             ELSE ImportOne(disk, sys_path, core_path, package.module_info,
                            package.modules, module)

\* the first lines of set_core_path: nothing to do, ValueError, or go on
set_core_path_entry(core_path, path) ==
    IF path = core_path THEN "same"
    ELSE IF ~path_exists(path) THEN "ValueError"
    ELSE "switch"

\* sys.modules.keys(): the list the first loop of set_core_path walks
module_keys(modules) == { m \in DOMAIN modules : modules[m] # NotImported }

\* one turn of the first loop of set_core_path: a namespace module is
\* remembered and deleted from sys.modules, del raising KeyError for a
\* module that is no longer there; any other module is passed over
delete_module(modules, to_import, module) ==
    IF ~InNamespaces(module)
    THEN [kind |-> "return", modules |-> modules, to_import |-> to_import]
    ELSE IF modules[module] = NotImported
    THEN [kind |-> "KeyError", modules |-> modules,
          to_import |-> to_import \cup {module}]
    ELSE [kind |-> "return",
          modules |-> [modules EXCEPT ![module] = NotImported],
          to_import |-> to_import \cup {module}]

\* what was imported before the handler is constructed
ImportedAtStart ==
    { [m \in ModuleNames |-> IF m \in S \cup {OsModule}
                             THEN Loaded(IF m = OsModule THEN "stdlib" ELSE "A", "default")
                             ELSE NotImported] :
        S \in {{}, {TankModule}, {TankModule, TankUtilModule}} }

NoModuleInfo == [m \in NamespaceModules |-> None]

IdleCaller ==
    [pc |-> "idle", path |-> None, entry |-> "none", keys |-> {}, to_import |-> {},
     out |-> NotCalled,
     calls |-> 0]

\* a thread that is not inside an import; inside one, module is what it
\* imports, location where the default mechanism would look for it,
\* core_path what find_module read from self.core_path
IdleOther ==
    [pc |-> "idle", module |-> None, location |-> None, core_path |-> None,
     loader |-> None, kind |-> "none"]

\* the interpreter before CoreImportHandler(...) is called
BeforeConstruction(modules, disk, sys_path) ==
    [constructed |-> FALSE,
     core_path |-> None,
     core_change_lock |-> "none",
     module_info |-> NoModuleInfo,
     sys_modules |-> modules,
     at_construction |-> modules,
     disk |-> disk,
     sys_path |-> sys_path,
     caller |-> IdleCaller,
     other |-> IdleOther]

(***************************************************************************)
(* States in which a component is not exercised.                           *)
(***************************************************************************)
IdleMatcher == version_numbers = <<>> /\ pattern = <<>> /\ matcher_out = NotCalled

IdleCodec ==
    descriptor_dict = <<>> /\ uri = <<>> /\ uri_out = NotCalled /\ dict_out = NotCalled

IdleImporter ==
    importer = BeforeConstruction([m \in ModuleNames |-> NotImported],
                                  [c \in ExistingCores |-> [m \in NamespaceModules |-> "ok"]],
                                  <<>>)

IdleP4Matcher == p4_matcher_out = NotCalled

IdleP4Init == p4_init = [location_dict |-> <<>>, out |-> NotCalled]

IdleValidation ==
    validation = [descriptor_dict |-> <<>>, required |-> {}, optional |-> {},
                  out |-> NotCalled, warnings |-> 0]

IdleResolver == resolver = [roots |-> <<>>, bundle |-> <<>>, out |-> NotCalled]

IdleThreads == threads = [calls |-> <<>>, parses |-> 0]

IdlePerforce == perforce = NewLocalCopy(1)

IdleDescriptor ==
    /\ InitDescriptor
    /\ self.descriptor_dict = (<<"p", "a", "t", "h">> :> <<"f", "o", "o">>)

(***************************************************************************)
(* The operations of a descriptor instance, one step per statement that    *)
(* touches the backing files, and the environment's changes of the files,  *)
(* which may come between any two steps of a call.                         *)
(***************************************************************************)
\* an ensure_local that downloads whether or not the bundle is local
DownloadsAlways(files) == TRUE

\* "if not self.exists_local()" of ensure_local and get_manifest
NeedsDownload(files) == ~exists_local(files)

\* "if self.__manifest_data is None" of get_manifest
MustLoad(data) == data = None

\* os.path.join(bundle_root, BUNDLE_METADATA_FILE) fails on None
JoinFails(bundle_root) == bundle_root = None

\* a get_manifest that reads the metadata file of the download target
\* whatever get_path() answered
PrimaryFilePath(bundle_root) == DownloadTarget

\* file_path = os.path.join(bundle_root, BUNDLE_METADATA_FILE): the metadata
\* file of the candidate get_path() answered
file_path(bundle_root) == bundle_root

\* a get_manifest that keeps what it got hold of when the load fails
CachesOnFailure(data, out) == IF out.kind = "return" THEN out.value ELSE "partial"

\* "self.__manifest_data = metadata", reached only when nothing was raised
CachedAfter(data, out) == IF out.kind = "return" THEN out.value ELSE data

\* "Downloading %s ..." % self of ensure_local and "Copying %r" % self of
\* copy: __repr__ calls get_uri(), and uri_from_dict raises for an identity
\* without a "type" key
ReprRaises(inst) ==
    uri_from_dict(inst.descriptor_dict,
                  CHOOSE items \in Perms(DOMAIN inst.descriptor_dict) : TRUE).kind # "return"

\* a loop of get_path that takes the candidates from the last to the first
CandidateFromEnd(i) == get_cache_paths[Len(get_cache_paths) + 1 - i]

\* "for path in self._get_cache_paths()": the candidate of turn i
Candidate(i) == get_cache_paths[i]

\* one turn of the loop of get_path: os.path.exists of the metadata file of
\* candidate i, on the files as they are at that moment
probe(files, seen, i) == [seen EXCEPT ![Candidate(i)] = files[Candidate(i)]]

\* the loop of get_path ends at the candidate whose metadata file exists,
\* or after the last candidate
LookupEnds(seen, i) == seen[Candidate(i)] # Absent \/ i = Len(get_cache_paths)

\* a call enters its first statement that looks at the files
Enters(op, pc) == [NoCall EXCEPT !.op = op, !.pc = pc, !.was_local = exists_local(fs), !.lacked = { p \in Range(get_cache_paths) : fs[p] = Absent }, !.firsts = {get_path(fs)}]

\* the record of a call of get_manifest, ensure_local or copy that ends
Ended(kind, error, value, read) ==
    Call(call.op, kind, error, value, first_manifest, TRUE, call.was_local,
         call.downloaded, call.dl_returned, read, exists_local(fs))

\* a call that reads the instance or the files and changes neither
Observed(op, out) ==
    Call(op, out.kind, out.error, out.value, first_manifest,
         FALSE, FALSE, FALSE, FALSE, FALSE, exists_local(fs))

\* get_path() is called
GetPath ==
    /\ call.pc = "idle"
    /\ call' = Enters("get_path", "get_path")
    /\ last' = Calling
    /\ UNCHANGED <<manifest_data, fs, download_calls, first_manifest, self>>

\* exists_local() is called
ExistsLocal ==
    /\ call.pc = "idle"
    /\ call' = Enters("exists_local", "exists_local")
    /\ last' = Calling
    /\ UNCHANGED <<manifest_data, fs, download_calls, first_manifest, self>>

\* ensure_local() is called: the exists_local() of line 504 begins
EnsureLocal ==
    /\ call.pc = "idle"
    /\ call' = Enters("ensure_local", "exists_local")
    /\ last' = Calling
    /\ UNCHANGED <<manifest_data, fs, download_calls, first_manifest, self>>

\* get_manifest() is called: the cached manifest is returned at once, else
\* the exists_local() of line 310 begins
GetManifest ==
    /\ call.pc = "idle"
    /\ IF ~MustLoad(manifest_data)
       THEN /\ last' = Call("get_manifest", "return", "", manifest_data, first_manifest,
                            FALSE, FALSE, FALSE, FALSE, FALSE, exists_local(fs))
            /\ UNCHANGED <<manifest_data, fs, download_calls, first_manifest, self, call>>
       ELSE /\ call' = Enters("get_manifest", "exists_local")
            /\ last' = Calling
            /\ UNCHANGED <<manifest_data, fs, download_calls, first_manifest, self>>

\* copy() is called: the log message of line 292 formats the instance, then
\* the exists_local() of ensure_local() begins
Copy ==
    /\ call.pc = "idle"
    /\ IF ReprRaises(self)
       THEN /\ last' = Call("copy", "TankDescriptorError", "missing type field",
                            "n/a", first_manifest,
                            FALSE, FALSE, FALSE, FALSE, FALSE, exists_local(fs))
            /\ UNCHANGED <<manifest_data, fs, download_calls, first_manifest, self, call>>
       ELSE /\ call' = Enters("copy", "exists_local")
            /\ last' = Calling
            /\ UNCHANGED <<manifest_data, fs, download_calls, first_manifest, self>>

\* the statement a call goes on with when its lookup has ended with what it
\* has seen: get_path() and exists_local() return; ensure_local (504),
\* get_manifest (310) and copy go to download_local() or past it;
\* get_manifest (320-321) keeps bundle_root or fails in os.path.join;
\* copy (297) hands get_path() to copy_folder, which cannot read from None
Looked(seen) ==
    LET found == get_path(seen)
    IN  CASE call.op = "get_path" ->
               /\ last' = Observed("get_path", Return(found))
               /\ call' = NoCall
          [] call.op = "exists_local" ->
               /\ last' = Observed("exists_local", Return(exists_local(seen)))
               /\ call' = NoCall
          [] call.pc = "exists_local" /\ call.op = "ensure_local" ->
               IF NeedsDownload(seen)
               THEN /\ call' = [call EXCEPT !.pc = "download", !.i = 1, !.seen = NoneSeen]
                    /\ UNCHANGED last
               ELSE /\ last' = Ended("return", "", "n/a", FALSE)
                    /\ call' = NoCall
          [] call.pc = "exists_local" /\ call.op \in {"get_manifest", "copy"} ->
               /\ call' = [call EXCEPT !.pc = IF NeedsDownload(seen) THEN "download"
                                              ELSE "get_path",
                                       !.i = 1, !.seen = NoneSeen]
               /\ UNCHANGED last
          [] call.pc = "get_path" /\ call.op = "get_manifest" ->
               IF JoinFails(found)
               THEN /\ last' = Ended("AttributeError",
                                     "'NoneType' object has no attribute 'endswith'",
                                     "n/a", FALSE)
                    /\ call' = NoCall
               ELSE /\ call' = [call EXCEPT !.pc = "exists", !.i = 1, !.seen = NoneSeen,
                                            !.bundle_root = found]
                    /\ UNCHANGED last
          [] call.pc = "get_path" /\ call.op = "copy" ->
               /\ last' = Ended(IF found = None THEN "CopyFolderError" ELSE "return",
                                "", "n/a", FALSE)
               /\ call' = NoCall

\* one turn of the loop of get_path, in get_path() itself or in the
\* get_path() that exists_local(), ensure_local, get_manifest or copy call:
\* the next candidate, or the end of the lookup
Probe ==
    /\ call.pc \in {"exists_local", "get_path"}
    /\ LET seen == probe(fs, call.seen, call.i)
       IN  IF LookupEnds(seen, call.i)
           THEN Looked(seen)
           ELSE /\ call' = [call EXCEPT !.i = call.i + 1, !.seen = seen]
                /\ UNCHANGED last
    /\ UNCHANGED <<manifest_data, fs, download_calls, first_manifest, self>>

\* the branch taken when exists_local() was false: ensure_local formats the
\* instance for its log message (505), then download_local() raises, or
\* returns having put a metadata file at the download target or none
DownloadLocal ==
    /\ call.pc = "download"
    /\ IF call.op = "ensure_local" /\ ReprRaises(self)
       THEN /\ last' = Ended("TankDescriptorError", "missing type field", "n/a", FALSE)
            /\ call' = NoCall
            /\ UNCHANGED <<fs, download_calls>>
       ELSE \E dl \in DownloadOutcomes :
            /\ download_calls < MaxDownloads
            /\ download_calls' = download_calls + 1
            /\ fs' = AfterDownload(fs, dl)
            /\ IF dl.result = "raise" \/ call.op = "ensure_local"
               THEN /\ last' = Call(call.op,
                                    IF dl.result = "raise" THEN "ProviderFailure"
                                    ELSE "return",
                                    "", "n/a", first_manifest, TRUE, call.was_local,
                                    TRUE, dl.result = "return", FALSE, exists_local(fs'))
                    /\ call' = NoCall
               ELSE /\ call' = [call EXCEPT !.pc = "get_path", !.downloaded = TRUE,
                                            !.dl_returned = TRUE,
                                            !.firsts = call.firsts \cup {get_path(fs')}]
                    /\ UNCHANGED last
    /\ UNCHANGED <<manifest_data, first_manifest, self>>

\* get_manifest, line 323: "if not os.path.exists(file_path): raise"
ManifestExists ==
    /\ call.pc = "exists"
    /\ IF fs[file_path(call.bundle_root)] = Absent
       THEN /\ last' = Ended("TankDescriptorError", "metadata file missing", "n/a", FALSE)
            /\ call' = NoCall
       ELSE /\ call' = [call EXCEPT !.pc = "open"]
            /\ UNCHANGED last
    /\ UNCHANGED <<manifest_data, fs, download_calls, first_manifest, self>>

\* get_manifest, lines 328-340: open, yaml.load, the assignment of the cache
\* and the return
ManifestOpen ==
    /\ call.pc = "open"
    /\ LET content == fs[file_path(call.bundle_root)]
           out == IF content \in {Absent, "invalid"}
                  THEN Raise("TankDescriptorError", "Cannot load metadata file", <<>>)
                  ELSE Return(YamlLoad(content))
       IN  /\ manifest_data' = CachedAfter(manifest_data, out)
           /\ first_manifest' = IF out.kind = "return" /\ first_manifest = "unset"
                                THEN out.value ELSE first_manifest
           /\ last' = Ended(out.kind, out.error,
                            IF out.kind = "return" THEN out.value ELSE "n/a", TRUE)
           /\ call' = NoCall
    /\ UNCHANGED <<fs, download_calls, self>>

\* the call under way after the environment has written or deleted the
\* metadata file at path
Touched(path, deleted, files) ==
    IF call.pc = "idle" THEN call
    ELSE [call EXCEPT !.touched = call.touched \cup {path},
                      !.lacked = IF deleted THEN call.lacked \cup {path} ELSE call.lacked,
                      !.firsts = call.firsts \cup {get_path(files)}]

\* the environment deletes the metadata file at a candidate path
DeleteFile ==
    \E p \in Range(get_cache_paths) :
        /\ fs[p] # Absent
        /\ fs' = [fs EXCEPT ![p] = Absent]
        /\ last' = EnvStep(fs')
        /\ call' = Touched(p, TRUE, fs')
        /\ UNCHANGED <<manifest_data, download_calls, first_manifest, self>>

\* the environment puts or replaces the metadata file at a candidate path
WriteFile ==
    \E p \in Range(get_cache_paths) : \E c \in ContentsAt(p) :
        /\ fs[p] # c
        /\ fs' = [fs EXCEPT ![p] = c]
        /\ last' = EnvStep(fs')
        /\ call' = Touched(p, FALSE, fs')
        /\ UNCHANGED <<manifest_data, download_calls, first_manifest, self>>

\* a set_cache_roots that also files the primary root in the dictionary
RootsIntoDict(inst, primary_root, fallback_roots) ==
    [inst EXCEPT !.bundle_cache_root = primary_root,
                 !.fallback_roots = fallback_roots,
                 !.descriptor_dict =
                     (<<"r", "o", "o", "t">> :> <<primary_root>>) @@ inst.descriptor_dict]

\* set_cache_roots: the instance after the call
set_cache_roots(inst, primary_root, fallback_roots) ==
    [inst EXCEPT !.bundle_cache_root = primary_root,
                 !.fallback_roots = fallback_roots]

\* get_dict
get_dict(inst) == inst.descriptor_dict

SetCacheRoots ==
    \E primary_root \in PrimaryRoots : \E fallback_roots \in FallbackRootLists :
        /\ call.pc = "idle"
        /\ self' = set_cache_roots(self, primary_root, fallback_roots)
        /\ last' = Observed("set_cache_roots", Return(None))
        /\ UNCHANGED <<manifest_data, fs, download_calls, first_manifest, call>>

GetDict ==
    /\ call.pc = "idle"
    /\ last' = Observed("get_dict", Return(get_dict(self)))
    /\ UNCHANGED <<manifest_data, fs, download_calls, first_manifest, self, call>>

\* get_uri: uri_from_dict of the instance's dictionary
GetUri ==
    \E items \in Perms(DOMAIN self.descriptor_dict) :
        /\ call.pc = "idle"
        /\ last' = Observed("get_uri", uri_from_dict(self.descriptor_dict, items))
        /\ UNCHANGED <<manifest_data, fs, download_calls, first_manifest, self, call>>

Others == <<matcherVars, codecVars, perforceVars, threadVars, resolverVars, validationVars, importerVars, p4MatcherVars, p4InitVars>>

Init ==
    /\ InitDescriptor
    /\ IdleMatcher /\ IdleCodec /\ IdlePerforce /\ IdleThreads /\ IdleResolver /\ IdleValidation /\ IdleImporter /\ IdleP4Matcher /\ IdleP4Init

Next ==
    \/ EnsureLocal /\ UNCHANGED Others
    \/ GetManifest /\ UNCHANGED Others
    \/ GetPath /\ UNCHANGED Others
    \/ ExistsLocal /\ UNCHANGED Others
    \/ Copy /\ UNCHANGED Others
    \/ Probe /\ UNCHANGED Others
    \/ DownloadLocal /\ UNCHANGED Others
    \/ ManifestExists /\ UNCHANGED Others
    \/ ManifestOpen /\ UNCHANGED Others
    \/ DeleteFile /\ UNCHANGED Others
    \/ WriteFile /\ UNCHANGED Others
    \/ SetCacheRoots /\ UNCHANGED Others
    \/ GetDict /\ UNCHANGED Others
    \/ GetUri /\ UNCHANGED Others

Spec == Init /\ [][Next]_vars

\* one instance on which only ensure_local() is called
NextEnsureLocal ==
    \/ EnsureLocal /\ UNCHANGED Others
    \/ Probe /\ UNCHANGED Others
    \/ DownloadLocal /\ UNCHANGED Others
    \/ DeleteFile /\ UNCHANGED Others
    \/ WriteFile /\ UNCHANGED Others

SpecEnsureLocal == Init /\ [][NextEnsureLocal]_vars

(***************************************************************************)
(* One TankPerforceDescriptor: download_local() and exists_local() calls,  *)
(* and the removal of the local folder by the environment.                 *)
(***************************************************************************)
InitPerforce ==
    /\ perforce \in { NewLocalCopy(n) : n \in 1..MaxDepotFiles }
    /\ IdleMatcher
    /\ IdleCodec
    /\ IdleDescriptor
    /\ IdleThreads
    /\ IdleResolver /\ IdleValidation /\ IdleImporter /\ IdleP4Matcher /\ IdleP4Init

\* thread t enters download_local(): the exists_local() test of line 83
P4DownloadLocal(t) ==
    /\ perforce.calls[t].pc = "idle"
    /\ p4_exists_local(perforce) \/ perforce.downloads < MaxP4Downloads
    /\ perforce' = p4_check(perforce, t)
    /\ UNCHANGED <<matcherVars, codecVars, descriptorVars, threadVars, resolverVars, validationVars, importerVars, p4MatcherVars, p4InitVars>>

\* thread t at the test of lines 87-88
P4Test(t) ==
    /\ perforce.calls[t].pc = "test"
    /\ perforce' = p4_test(perforce, t)
    /\ UNCHANGED <<matcherVars, codecVars, descriptorVars, threadVars, resolverVars, validationVars, importerVars, p4MatcherVars, p4InitVars>>

\* thread t at line 89
P4Umask(t) ==
    /\ perforce.calls[t].pc = "umask"
    /\ perforce' = p4_umask(perforce, t)
    /\ UNCHANGED <<matcherVars, codecVars, descriptorVars, threadVars, resolverVars, validationVars, importerVars, p4MatcherVars, p4InitVars>>

\* thread t at line 90
P4Makedirs(t) ==
    /\ perforce.calls[t].pc = "makedirs"
    /\ \E raises \in BOOLEAN : perforce' = p4_makedirs(perforce, t, raises)
    /\ UNCHANGED <<matcherVars, codecVars, descriptorVars, threadVars, resolverVars, validationVars, importerVars, p4MatcherVars, p4InitVars>>

\* thread t at line 91
P4Restore(t) ==
    /\ perforce.calls[t].pc = "restore"
    /\ perforce' = p4_restore(perforce, t)
    /\ UNCHANGED <<matcherVars, codecVars, descriptorVars, threadVars, resolverVars, validationVars, importerVars, p4MatcherVars, p4InitVars>>

\* thread t at lines 211-214
P4Connect(t) ==
    /\ perforce.calls[t].pc = "connect"
    /\ \E raises \in BOOLEAN : perforce' = p4_connect(perforce, t, raises)
    /\ UNCHANGED <<matcherVars, codecVars, descriptorVars, threadVars, resolverVars, validationVars, importerVars, p4MatcherVars, p4InitVars>>

\* thread t at one turn of the loop of lines 215-217
P4Print(t) ==
    /\ perforce.calls[t].pc = "print"
    /\ \E raises \in BOOLEAN : perforce' = p4_print(perforce, t, raises)
    /\ UNCHANGED <<matcherVars, codecVars, descriptorVars, threadVars, resolverVars, validationVars, importerVars, p4MatcherVars, p4InitVars>>

P4ExistsLocal ==
    /\ perforce' = [perforce EXCEPT
                      !.last = P4Call("exists_local", "return",
                                      p4_exists_local(perforce), FALSE)]
    /\ UNCHANGED <<matcherVars, codecVars, descriptorVars, threadVars, resolverVars, validationVars, importerVars, p4MatcherVars, p4InitVars>>

\* the environment removes the local folder and what is in it
P4RemoveFolder ==
    /\ perforce.folder
    /\ perforce' = [perforce EXCEPT
                      !.folder = FALSE, !.files = {}, !.completed = FALSE,
                      !.last = P4Call("env", "none", "n/a", FALSE)]
    /\ UNCHANGED <<matcherVars, codecVars, descriptorVars, threadVars, resolverVars, validationVars, importerVars, p4MatcherVars, p4InitVars>>

NextPerforce ==
    \/ \E t \in P4Threads : P4DownloadLocal(t)
    \/ \E t \in P4Threads : P4Test(t)
    \/ \E t \in P4Threads : P4Umask(t)
    \/ \E t \in P4Threads : P4Makedirs(t)
    \/ \E t \in P4Threads : P4Restore(t)
    \/ \E t \in P4Threads : P4Connect(t)
    \/ \E t \in P4Threads : P4Print(t)
    \/ P4ExistsLocal
    \/ P4RemoveFolder

SpecPerforce == InitPerforce /\ [][NextPerforce]_vars

(***************************************************************************)
(* Threads that each call get_manifest() once on the same instance; a step *)
(* is one statement of get_manifest, threads interleave between steps.     *)
(* Here the only change of the files is a download_local() that puts the   *)
(* metadata file at the download target, the first candidate, and no file  *)
(* is removed: the loop of get_path tests the first candidate first and    *)
(* the later candidates never change, so a lookup gives what get_path      *)
(* gives on the files as they are at its first test, and is one step.      *)
(***************************************************************************)
Threads == 1..MaxThreads

ThreadAt(position, bundle_root, metadata, out) ==
    [pc |-> position, bundle_root |-> bundle_root, metadata |-> metadata, out |-> out]

InitThreads ==
    /\ InitDescriptor
    /\ threads = [calls |-> [t \in Threads |-> ThreadAt("check_cache", None, None, Pending)],
                  parses |-> 0]
    /\ IdleMatcher
    /\ IdleCodec
    /\ IdlePerforce
    /\ IdleResolver /\ IdleValidation /\ IdleImporter /\ IdleP4Matcher /\ IdleP4Init

\* thread t moves to position, the rest of its local state as given
Moves(t, position, bundle_root, metadata, out) ==
    [threads EXCEPT !.calls[t] = ThreadAt(position, bundle_root, metadata, out)]

Goes(t, position) ==
    Moves(t, position, threads.calls[t].bundle_root, threads.calls[t].metadata,
          threads.calls[t].out)

Fails(t, out) ==
    Moves(t, "done", threads.calls[t].bundle_root, threads.calls[t].metadata, out)

\* if self.__manifest_data is None:
ThreadCheckCache(t) ==
    /\ threads.calls[t].pc = "check_cache"
    /\ threads' = Goes(t, IF MustLoad(manifest_data) THEN "probe" ELSE "return")
    /\ UNCHANGED <<manifest_data, fs, download_calls>>

\* if not self.exists_local():
ThreadProbe(t) ==
    /\ threads.calls[t].pc = "probe"
    /\ threads' = Goes(t, IF NeedsDownload(fs) THEN "download" ELSE "get_path")
    /\ UNCHANGED <<manifest_data, fs, download_calls>>

\* self.download_local()
ThreadDownload(t) ==
    /\ threads.calls[t].pc = "download"
    /\ \E dl \in DownloadOutcomes :
          /\ fs' = AfterDownload(fs, dl)
          /\ threads' = IF dl.result = "raise"
                        THEN Fails(t, Raise("ProviderFailure", "", <<>>))
                        ELSE Goes(t, "get_path")
    /\ download_calls' = download_calls + 1
    /\ UNCHANGED manifest_data

\* bundle_root = self.get_path(); file_path = os.path.join(bundle_root, ...)
ThreadGetPath(t) ==
    /\ threads.calls[t].pc = "get_path"
    /\ threads' =
          IF JoinFails(get_path(fs))
          THEN Fails(t, Raise("AttributeError",
                              "'NoneType' object has no attribute 'endswith'", <<>>))
          ELSE Moves(t, "exists", get_path(fs), threads.calls[t].metadata,
                     threads.calls[t].out)
    /\ UNCHANGED <<manifest_data, fs, download_calls>>

\* if not os.path.exists(file_path): raise
ThreadExists(t) ==
    /\ threads.calls[t].pc = "exists"
    /\ threads' =
          IF fs[threads.calls[t].bundle_root] = Absent
          THEN Fails(t, Raise("TankDescriptorError", "metadata file missing", <<>>))
          ELSE Goes(t, "load")
    /\ UNCHANGED <<manifest_data, fs, download_calls>>

\* metadata = yaml.load(open(file_path))
ThreadLoad(t) ==
    /\ threads.calls[t].pc = "load"
    /\ LET content == fs[threads.calls[t].bundle_root]
       IN  threads' =
             IF content \in {Absent, "invalid"}
             THEN Fails(t, Raise("TankDescriptorError", "Cannot load metadata file", <<>>))
             ELSE [Moves(t, "cache", threads.calls[t].bundle_root, YamlLoad(content),
                         threads.calls[t].out)
                   EXCEPT !.parses = threads.parses + 1]
    /\ UNCHANGED <<manifest_data, fs, download_calls>>

\* self.__manifest_data = metadata
ThreadCache(t) ==
    /\ threads.calls[t].pc = "cache"
    /\ manifest_data' = threads.calls[t].metadata
    /\ threads' = Goes(t, "return")
    /\ UNCHANGED <<fs, download_calls>>

\* return self.__manifest_data
ThreadReturn(t) ==
    /\ threads.calls[t].pc = "return"
    /\ threads' = Moves(t, "done", threads.calls[t].bundle_root,
                        threads.calls[t].metadata, Return(manifest_data))
    /\ UNCHANGED <<manifest_data, fs, download_calls>>

\* what no step of a thread changes
ThreadsLeaveAlone ==
    /\ UNCHANGED <<first_manifest, last, call, self>>
    /\ UNCHANGED <<matcherVars, codecVars, perforceVars, resolverVars, validationVars, importerVars, p4MatcherVars, p4InitVars>>

NextThreads ==
    \/ \E t \in Threads : ThreadCheckCache(t) /\ ThreadsLeaveAlone
    \/ \E t \in Threads : ThreadProbe(t) /\ ThreadsLeaveAlone
    \/ \E t \in Threads : ThreadDownload(t) /\ ThreadsLeaveAlone
    \/ \E t \in Threads : ThreadGetPath(t) /\ ThreadsLeaveAlone
    \/ \E t \in Threads : ThreadExists(t) /\ ThreadsLeaveAlone
    \/ \E t \in Threads : ThreadLoad(t) /\ ThreadsLeaveAlone
    \/ \E t \in Threads : ThreadCache(t) /\ ThreadsLeaveAlone
    \/ \E t \in Threads : ThreadReturn(t) /\ ThreadsLeaveAlone

SpecThreads == InitThreads /\ [][NextThreads]_vars

(***************************************************************************)
(* The cache path resolver applied to one list of roots and one bundle.    *)
(***************************************************************************)
RootNames == {"P1", "F1", "F2"}

BundleUniverse ==
    [type : {"app_store", "git"}, name : {"tk-foo"}, version : {"v1.0.0", "v2.0.0"},
     bundle_type : {"APP", "ENGINE", "FRAMEWORK", "CORE"}]

InitResolver ==
    /\ resolver \in [roots : BoundedSeq(RootNames, MaxRoots) \ {<<>>},
                      bundle : BundleUniverse,
                      out : {Pending}]
    /\ IdleMatcher
    /\ IdleCodec
    /\ IdleDescriptor
    /\ IdlePerforce
    /\ IdleThreads
    /\ IdleValidation /\ IdleImporter /\ IdleP4Matcher /\ IdleP4Init

GetCachePaths ==
    /\ resolver.out = Pending
    /\ resolver' = [resolver EXCEPT !.out = ResolveCachePaths(resolver.roots,
                                                             resolver.bundle)]
    /\ UNCHANGED <<matcherVars, codecVars, descriptorVars, perforceVars, threadVars, validationVars, importerVars, p4MatcherVars, p4InitVars>>

NextResolver == GetCachePaths

SpecResolver == InitResolver /\ [][NextResolver]_vars

(***************************************************************************)
(* _validate_descriptor applied to one dictionary, one list of required    *)
(* keys and one list of optional keys.                                     *)
(***************************************************************************)
ValidatedKeys == ExtraKeys \cup {TypeKey}

ValidatedDicts ==
    UNION { [K -> {<<"f", "o", "o">>, <<"g", "i", "t">>}] : K \in SUBSET ValidatedKeys }

InitValidation ==
    /\ validation \in [descriptor_dict : ValidatedDicts,
                        required : SUBSET {TypeKey, <<"p", "a", "t", "h">>},
                        optional : SUBSET {<<"v", "e", "r", "s", "i", "o", "n">>},
                        out : {Pending},
                        warnings : {0}]
    /\ IdleMatcher
    /\ IdleCodec
    /\ IdleDescriptor
    /\ IdlePerforce
    /\ IdleThreads
    /\ IdleResolver /\ IdleImporter /\ IdleP4Matcher /\ IdleP4Init

ValidateDescriptor ==
    /\ validation.out = Pending
    /\ LET done == validate_descriptor(validation.descriptor_dict, validation.required,
                                       validation.optional)
       IN  validation' = [validation EXCEPT !.out = done.out,
                                            !.warnings = @ + done.warnings]
    /\ UNCHANGED <<matcherVars, codecVars, descriptorVars, perforceVars, threadVars, resolverVars, importerVars, p4MatcherVars, p4InitVars>>

NextValidation == ValidateDescriptor

SpecValidation == InitValidation /\ [][NextValidation]_vars

(***************************************************************************)
(* CoreImportHandler: construction, set_core_path step by step in one      *)
(* thread, imports made by another thread.                                 *)
(***************************************************************************)
InitImporter ==
    /\ importer \in { BeforeConstruction(modules, disk, sys_path) :
                        modules \in ImportedAtStart, disk \in Disks, sys_path \in SysPaths }
    /\ IdleMatcher
    /\ IdleCodec
    /\ IdleDescriptor
    /\ IdlePerforce
    /\ IdleThreads
    /\ IdleResolver /\ IdleValidation /\ IdleP4Matcher /\ IdleP4Init

ImporterLeavesAlone ==
    UNCHANGED <<matcherVars, codecVars, descriptorVars, perforceVars, threadVars, resolverVars, validationVars, p4MatcherVars, p4InitVars>>

\* __init__: _core_path is assigned, then set_core_path(core_path) is called,
\* then the lock and _module_info are made
Construct ==
    \E core_path \in CorePaths :
        /\ ~importer.constructed
        /\ importer.caller.out = NotCalled
        /\ LET entry == set_core_path_entry(core_path, core_path)
           IN  importer' =
                 IF entry = "same"
                 THEN [importer EXCEPT !.constructed = TRUE,
                                       !.core_path = core_path,
                                       !.core_change_lock = "free",
                                       !.module_info = NoModuleInfo]
                 ELSE [importer EXCEPT !.core_path = core_path,
                                       !.caller.out =
                                           Raise(IF entry = "ValueError" THEN "ValueError"
                                                 ELSE "AttributeError", "", <<>>)]
        /\ ImporterLeavesAlone

\* set_core_path(path) up to the assignment of _core_path
SetCorePath ==
    \E path \in CorePaths :
        /\ importer.constructed
        /\ importer.caller.pc = "idle"
        /\ importer.caller.calls < MaxCoreChanges
        /\ LET entry == set_core_path_entry(importer.core_path, path)
           IN  importer' =
                 CASE entry = "same" ->
                        [importer EXCEPT !.caller.path = path,
                                         !.caller.entry = entry,
                                         !.caller.out = Return(None)]
                   [] entry = "ValueError" ->
                        [importer EXCEPT !.caller.path = path,
                                         !.caller.entry = entry,
                                         !.caller.out = Raise("ValueError",
                                                              "not a valid directory", <<>>)]
                   [] entry = "switch" ->
                        [importer EXCEPT !.core_path = path,
                                         !.caller.pc = "acquire",
                                         !.caller.path = path,
                                         !.caller.entry = entry,
                                         !.caller.out = Pending,
                                         !.caller.calls = @ + 1]
        /\ ImporterLeavesAlone

\* self._core_change_lock.acquire(): waits while the lock is held
AcquireLock ==
    /\ importer.caller.pc = "acquire"
    /\ importer.core_change_lock = "free"
    /\ importer' = [importer EXCEPT !.core_change_lock = "held",
                                    !.caller.pc = "keys"]
    /\ ImporterLeavesAlone

\* modules_to_import = [] and the sys.modules.keys() the first loop walks
ModuleKeys ==
    /\ importer.caller.pc = "keys"
    /\ importer' = [importer EXCEPT !.caller.keys = module_keys(importer.sys_modules),
                                    !.caller.to_import = {},
                                    !.caller.pc = "delete"]
    /\ ImporterLeavesAlone

\* one turn of the first loop, over a key of the list taken before it; the
\* imports of other threads are not kept out between two turns
DeleteModules ==
    \E module \in importer.caller.keys :
        /\ importer.caller.pc = "delete"
        /\ LET done == delete_module(importer.sys_modules, importer.caller.to_import,
                                     module)
               left == importer.caller.keys \ {module}
           IN  importer' =
                 IF done.kind = "return"
                 THEN [importer EXCEPT !.sys_modules = done.modules,
                                       !.caller.to_import = done.to_import,
                                       !.caller.keys = left,
                                       !.caller.pc = IF left = {} THEN "reimport"
                                                     ELSE "delete"]
                 ELSE [importer EXCEPT !.caller.to_import = {},
                                       !.caller.keys = {},
                                       !.caller.pc = "idle",
                                       !.caller.out = Raise(done.kind, "", <<>>)]
        /\ ImporterLeavesAlone

\* one turn of the second loop: __import__(module), ImportError ignored, any
\* other exception leaving set_core_path; an import waits for the import of
\* another thread to end
Reimport ==
    \E module \in importer.caller.to_import :
        /\ importer.caller.pc = "reimport"
        /\ importer.other.pc = "idle"
        /\ LET done == Import(importer.disk, importer.sys_path, importer.core_path,
                              importer.module_info, importer.sys_modules, module)
           IN  importer' =
                 IF done.kind \in {"return", "ImportError"}
                 THEN [importer EXCEPT !.sys_modules = done.modules,
                                       !.module_info = done.module_info,
                                       !.caller.to_import = @ \ {module}]
                 ELSE [importer EXCEPT !.sys_modules = done.modules,
                                       !.module_info = done.module_info,
                                       !.caller.to_import = {},
                                       !.caller.pc = "idle",
                                       !.caller.out = Raise(done.kind, "", <<>>)]
        /\ ImporterLeavesAlone

\* self._core_change_lock.release() after the second loop
ReleaseLock ==
    /\ importer.caller.pc = "reimport"
    /\ importer.caller.to_import = {}
    /\ importer' = [importer EXCEPT !.core_change_lock = "free",
                                    !.caller.pc = "idle",
                                    !.caller.out = Return(None)]
    /\ ImporterLeavesAlone

\* another thread imports a namespace module that is not in sys.modules and
\* whose package is: the import takes the __path__ of the package (sys.path
\* for a top-level module) as it is at that moment, then asks the finders
OtherImport ==
    \E module \in NamespaceModules :
        /\ importer.constructed
        /\ importer.other.pc = "idle"
        /\ importer.sys_modules[module] = NotImported
        /\ IF IsTopLevel(module) THEN TRUE
           ELSE importer.sys_modules[ParentOf(module)] # NotImported
        /\ importer' =
              [importer EXCEPT !.other =
                  [IdleOther EXCEPT !.pc = "find", !.module = module,
                                    !.location = DefaultLocation(importer.sys_path,
                                                                 importer.sys_modules,
                                                                 module),
                                    !.kind = "pending"]]
        /\ ImporterLeavesAlone

\* find_module, lines 97-117 in the other thread: the module is in the
\* namespaces, path is built from self.core_path as it is at that moment
OtherCorePath ==
    /\ importer.other.pc = "find"
    /\ importer' = [importer EXCEPT !.other.core_path = importer.core_path,
                                    !.other.pc = "imp_find"]
    /\ ImporterLeavesAlone

\* find_module, lines 125-129 in the other thread: imp.find_module under
\* the path built at line 117 and the entry of _module_info, or None and
\* the search of the default mechanism where the import said to look
OtherFindModule ==
    /\ importer.other.pc = "imp_find"
    /\ LET module == importer.other.module
           found == find_module(importer.disk, importer.other.core_path, module)
           location == importer.other.location
       IN  importer' =
             IF found # None
             THEN [importer EXCEPT !.module_info[module] = found,
                                   !.other.pc = "found",
                                   !.other.location = found,
                                   !.other.loader = "handler"]
             ELSE IF ModuleFile(importer.disk, location, module) = "missing"
             THEN [importer EXCEPT !.other = [IdleOther EXCEPT !.module = module,
                                                               !.loader = "default",
                                                               !.kind = "ImportError"]]
             ELSE [importer EXCEPT !.other.pc = "found",
                                   !.other.loader = "default"]
    /\ ImporterLeavesAlone

\* the other thread's load of the module it found, up to the point where
\* the code of the module starts to run: load_module of the handler from
\* line 155 on, or the load of the default mechanism
OtherLoadModule ==
    /\ importer.other.pc = "found"
    /\ LET module == importer.other.module
           by_handler == importer.other.loader = "handler"
           begun == load_begin(importer.disk, importer.other.location,
                               importer.sys_modules, module)
       IN  importer' =
             IF by_handler /\ importer.module_info[module] = None
             THEN [importer EXCEPT !.other.pc = "idle", !.other.kind = "KeyError"]
             ELSE IF ~begun.started
             THEN [importer EXCEPT !.module_info =
                                       IF by_handler THEN [@ EXCEPT ![module] = None] ELSE @,
                                   !.other.pc = "idle",
                                   !.other.kind = "SyntaxError"]
             ELSE [importer EXCEPT !.sys_modules = begun.modules,
                                   !.other.pc = "executing"]
    /\ ImporterLeavesAlone

\* the end of the other thread's imp.load_module: the code of the module
\* has run or raised and the module is looked up in sys.modules.  The
\* default mechanism ends its import here; load_module of the handler ends
\* here through its finally clause when imp.load_module raised, and when it
\* returned has the setdefault of line 158 still to call
OtherExecModule ==
    /\ importer.other.pc = "executing"
    /\ LET module == importer.other.module
           by_handler == importer.other.loader = "handler"
           done == load_end(importer.disk, importer.other.location,
                            importer.sys_modules, module, "default")
       IN  importer' =
             IF by_handler /\ done.kind = "return"
             THEN [importer EXCEPT !.sys_modules = done.modules,
                                   !.other.pc = "setdefault"]
             ELSE [importer EXCEPT !.sys_modules = done.modules,
                                   !.module_info =
                                       IF by_handler THEN [@ EXCEPT ![module] = None]
                                       ELSE @,
                                   !.other.pc = "idle",
                                   !.other.kind = done.kind]
    /\ ImporterLeavesAlone

\* load_module of the handler in the other thread, from the call of
\* sys.modules.setdefault (line 158) through the finally clause to lines
\* 171-174.  No import of the caller runs while this import holds the
\* import lock, and the deletions of the caller do not read __loader__,
\* so a deletion between setdefault and line 171 leaves what a deletion
\* right after line 171 leaves
OtherSetDefault ==
    /\ importer.other.pc = "setdefault"
    /\ LET module == importer.other.module
       IN  importer' =
             [importer EXCEPT !.sys_modules = setdefault(importer.sys_modules, module,
                                                         importer.other.location),
                              !.module_info[module] = None,
                              !.other.pc = "idle",
                              !.other.kind = "return"]
    /\ ImporterLeavesAlone

NextImporter ==
    \/ Construct
    \/ SetCorePath
    \/ AcquireLock
    \/ ModuleKeys
    \/ DeleteModules
    \/ Reimport
    \/ ReleaseLock

SpecImporter == InitImporter /\ [][NextImporter]_vars

NextImporterThreads ==
    \/ Construct
    \/ SetCorePath
    \/ AcquireLock
    \/ ModuleKeys
    \/ DeleteModules
    \/ Reimport
    \/ ReleaseLock
    \/ OtherImport
    \/ OtherCorePath
    \/ OtherFindModule
    \/ OtherLoadModule
    \/ OtherExecModule
    \/ OtherSetDefault

SpecImporterThreads == InitImporter /\ [][NextImporterThreads]_vars

(***************************************************************************)
(* The matcher applied to one tag list and one pattern.                    *)
(***************************************************************************)
InitMatcher ==
    /\ version_numbers \in TagLists
    /\ pattern \in PatternUniverse
    /\ matcher_out = Pending
    /\ IdleCodec
    /\ IdleDescriptor
    /\ IdlePerforce
    /\ IdleThreads
    /\ IdleResolver /\ IdleValidation /\ IdleImporter /\ IdleP4Matcher /\ IdleP4Init

FindLatestTagByPattern ==
    /\ matcher_out = Pending
    /\ matcher_out' = find_latest_tag_by_pattern(version_numbers, pattern)
    /\ UNCHANGED <<version_numbers, pattern, codecVars, descriptorVars, perforceVars, threadVars, resolverVars, validationVars, importerVars, p4MatcherVars, p4InitVars>>

NextMatcher == FindLatestTagByPattern

SpecMatcher == InitMatcher /\ [][NextMatcher]_vars


(***************************************************************************)
(* The matcher of IODescriptorBase and the matcher of                      *)
(* TankPerforceDescriptor applied to the same tag list and pattern.        *)
(***************************************************************************)
InitP4Matcher ==
    /\ version_numbers \in TagLists
    /\ pattern \in PatternUniverse
    /\ matcher_out = Pending
    /\ p4_matcher_out = Pending
    /\ IdleCodec
    /\ IdleDescriptor
    /\ IdlePerforce
    /\ IdleThreads
    /\ IdleResolver /\ IdleValidation /\ IdleImporter /\ IdleP4Init

P4FindLatestTagByPattern ==
    /\ p4_matcher_out = Pending
    /\ p4_matcher_out' = p4_find_latest_tag_by_pattern(version_numbers, pattern)
    /\ UNCHANGED <<matcherVars, codecVars, descriptorVars, perforceVars, threadVars, resolverVars, validationVars, importerVars, p4InitVars>>

NextP4Matcher == FindLatestTagByPattern \/ P4FindLatestTagByPattern

SpecP4Matcher == InitP4Matcher /\ [][NextP4Matcher]_vars

(***************************************************************************)
(* TankPerforceDescriptor constructed from one location dict.              *)
(***************************************************************************)
LocationKeys ==
    { <<"p", "a", "t", "h">>, <<"v", "e", "r", "s", "i", "o", "n">>,
      <<"t", "y", "p", "e">>, <<"n", "a", "m", "e">> }

LocationValues ==
    { <<"/", "/", "d", "e", "p", "o", "t", "/", "a", "p", "p">>,   \* //depot/app
      <<"/", "/", "d", "e", "p", "o", "t", "/", "a", "p", "p", "/">>,   \* //depot/app/
      <<"v", "1", ".", "0", ".", "0">>,   \* v1.0.0
      <<>> }   \* the empty string

LocationDicts == UNION { [K -> LocationValues] : K \in SUBSET LocationKeys }

InitP4Init ==
    /\ p4_init \in [location_dict : LocationDicts, out : {Pending}]
    /\ IdleMatcher
    /\ IdleCodec
    /\ IdleDescriptor
    /\ IdlePerforce
    /\ IdleThreads
    /\ IdleResolver /\ IdleValidation /\ IdleImporter /\ IdleP4Matcher

P4Init ==
    /\ p4_init.out = Pending
    /\ p4_init' = [p4_init EXCEPT !.out = p4_init_descriptor(p4_init.location_dict)]
    /\ UNCHANGED <<matcherVars, codecVars, descriptorVars, perforceVars, threadVars, resolverVars, validationVars, importerVars, p4MatcherVars>>

NextP4Init == P4Init

SpecP4Init == InitP4Init /\ [][NextP4Init]_vars

(***************************************************************************)
(* The codec applied to one identity (uri_from_dict, then dict_from_uri on *)
(* its result) or to one URI string (dict_from_uri).                       *)
(***************************************************************************)
InitCodec ==
    /\ \/ /\ descriptor_dict \in Identities
          /\ uri = <<>>
          /\ uri_out = Pending
       \/ /\ descriptor_dict = <<>>
          /\ uri \in UriUniverse
          /\ uri_out = NotCalled
    /\ dict_out = Pending
    /\ IdleMatcher
    /\ IdleDescriptor
    /\ IdlePerforce
    /\ IdleThreads
    /\ IdleResolver /\ IdleValidation /\ IdleImporter /\ IdleP4Matcher /\ IdleP4Init

UriFromDict ==
    /\ uri_out.kind = "pending"
    /\ \E items \in Perms(DOMAIN descriptor_dict) :
          /\ uri_out' = uri_from_dict(descriptor_dict, items)
          /\ uri' = IF uri_out'.kind = "return" THEN uri_out'.value ELSE uri
    /\ UNCHANGED <<descriptor_dict, dict_out, matcherVars, descriptorVars, perforceVars, threadVars, resolverVars, validationVars, importerVars, p4MatcherVars, p4InitVars>>

DictFromUri ==
    /\ dict_out.kind = "pending"
    /\ uri_out.kind \in {"return", "not called"}
    /\ dict_out' = dict_from_uri(uri)
    /\ UNCHANGED <<descriptor_dict, uri, uri_out, matcherVars, descriptorVars, perforceVars, threadVars, resolverVars, validationVars, importerVars, p4MatcherVars, p4InitVars>>

NextCodec == UriFromDict \/ DictFromUri

SpecCodec == InitCodec /\ [][NextCodec]_vars

(***************************************************************************)
(* The documented notions the matcher's contract is stated in.             *)
(***************************************************************************)
\* a decimal numeral: digits, without superfluous leading zeros
IsNumeral(s) == AllDigits(s) /\ (Len(s) = 1 \/ s[1] # "0")

\* a Version Tag: v<int>.<int>.<int>(.<int>)*
IsVersionTag(t) ==
    /\ Len(t) >= 1
    /\ t[1] = "v"
    /\ LET parts == Split(Drop(t, 1), ".")
       IN  Len(parts) >= 3 /\ \A i \in 1..Len(parts) : IsNumeral(parts[i])

\* the integer components of a Version Tag
TagInts(t) ==
    LET parts == Split(Drop(t, 1), ".")
    IN  [i \in 1..Len(parts) |-> DigitsValue(parts[i])]

\* the segments of a pattern, separated by literal dots
Segments(p) == Split(Drop(p, 1), ".")

\* the pattern grammar: v(<int>|x)(.(<int>|x)){2,} with literal dots
InGrammar(p) ==
    /\ Len(p) >= 1
    /\ p[1] = "v"
    /\ Len(Segments(p)) >= 3
    /\ \A i \in 1..Len(Segments(p)) :
          Segments(p)[i] = <<"x">> \/ AllDigits(Segments(p)[i])

\* some wildcard segment is followed, anywhere later, by a concrete segment
DigitAfterWildcard(p) ==
    \E i \in 1..Len(Segments(p)) : \E j \in (i + 1)..Len(Segments(p)) :
        Segments(p)[i] = <<"x">> /\ Segments(p)[j] # <<"x">>

ValidPattern(p) == InGrammar(p) /\ ~DigitAfterWildcard(p)

\* tag t is consistent with the valid pattern p
Consistent(t, p) ==
    /\ IsVersionTag(t)
    /\ Len(TagInts(t)) >= Len(Segments(p))
    /\ \A i \in 1..Len(Segments(p)) :
          Segments(p)[i] # <<"x">> => TagInts(t)[i] = DigitsValue(Segments(p)[i])

ConsistentTags(tags, p) ==
    { t \in { tags[i] : i \in 1..Len(tags) } : Consistent(t, p) }

\* a <= b, components compared as integers from left to right, an extension
\* of a being greater than a
IntsLeq(a, b) ==
    \/ a = b
    \/ \E k \in 1..Len(b) :
          /\ k <= Len(a) + 1
          /\ SubSeq(a, 1, k - 1) = SubSeq(b, 1, k - 1)
          /\ (k = Len(a) + 1 \/ a[k] < b[k])

IsSubstring(a, b) ==
    \E i \in 0..(Len(b) - Len(a)) : SubSeq(b, i + 1, i + Len(a)) = a

MatcherDone == matcher_out.kind \notin {"pending", "not called"}

(***************************************************************************)
(* C1. Whenever some valid tag of the list is consistent with the valid    *)
(* pattern, the matcher returns the consistent tag that is greatest when   *)
(* components are compared as integers from left to right.                 *)
(***************************************************************************)
C1_ReturnsGreatestConsistentTag ==
    (MatcherDone /\ ValidPattern(pattern)
        /\ ConsistentTags(version_numbers, pattern) # {})
    => /\ matcher_out.kind = "return"
       /\ matcher_out.value \in ConsistentTags(version_numbers, pattern)
       /\ \A t \in ConsistentTags(version_numbers, pattern) :
             IntsLeq(TagInts(t), TagInts(matcher_out.value))

(***************************************************************************)
(* C4. For a valid pattern that no valid tag of the list is consistent     *)
(* with, the matcher fails with the "no matching version" descriptor error *)
(* whose message contains every input tag, and with no other error.        *)
(***************************************************************************)
C4_UnsatisfiableRaisesNoMatchingVersion ==
    (MatcherDone /\ ValidPattern(pattern)
        /\ ConsistentTags(version_numbers, pattern) = {})
    => /\ matcher_out.kind = "TankDescriptorError"
       /\ matcher_out.error = "no version matching the pattern"
       /\ \A i \in 1..Len(version_numbers) :
             IsSubstring(version_numbers[i], matcher_out.text)

(***************************************************************************)
(* C5. Every pattern outside the grammar (the letter v, then at least      *)
(* three segments separated by literal dots, each an integer or x) is      *)
(* rejected with the descriptor error, whatever the tags.                  *)
(***************************************************************************)
C5_OutsideGrammarRejected ==
    (MatcherDone /\ ~InGrammar(pattern))
    => matcher_out.kind = "TankDescriptorError"

(***************************************************************************)
(* C6. Every grammatical pattern in which a wildcard segment is followed,  *)
(* anywhere later, by a concrete segment is rejected with the descriptor   *)
(* error.                                                                  *)
(***************************************************************************)
C6_DigitAfterWildcardRejected ==
    (MatcherDone /\ InGrammar(pattern) /\ DigitAfterWildcard(pattern))
    => matcher_out.kind = "TankDescriptorError"

(***************************************************************************)
(* The anatomy of a descriptor URI as documented:                          *)
(* <scheme>:descriptor:<type>?<key>=<value>&<key>=<value>...               *)
(***************************************************************************)
UriScheme(u) == IF Contains(u, ":") THEN Split1(u, ":")[1] ELSE <<>>

UriRest(u) == IF Contains(u, ":") THEN Split1(u, ":")[2] ELSE u

UriPathSegments(u) == Split(Split1(UriRest(u), "?")[1], ":")

UriQueryItems(u) ==
    LET parts == Split1(UriRest(u), "?")
    IN  IF Len(parts) = 1 \/ parts[2] = <<>> THEN <<>> ELSE Split(parts[2], "&")

UriQueryKey(item) == Split1(item, "=")[1]

SchemeMismatch(u) ==
    [i \in 1..Len(UriScheme(u)) |-> Lower(UriScheme(u)[i])] # DESCRIPTOR_URI_PATH_SCHEME

PathMismatch(u) ==
    \/ Len(UriPathSegments(u)) # 2
    \/ UriPathSegments(u)[1] # DESCRIPTOR_URI_PATH_PREFIX

KeyRepeats(u) ==
    \E i, j \in 1..Len(UriQueryItems(u)) :
        i # j /\ UriQueryKey(UriQueryItems(u)[i]) = UriQueryKey(UriQueryItems(u)[j])

\* the identities the round trip is documented for
RoundTripIdentity(d) ==
    /\ TypeKey \in DOMAIN d
    /\ \A k \in DOMAIN d : ~Contains(d[k], "&") /\ ~Contains(d[k], "=")

\* dict_from_uri has run on the result of uri_from_dict
RoundTripDone == uri_out.kind = "return" /\ dict_out.kind # "pending"

\* dict_from_uri has run on a URI string given from outside
ParseDone == uri_out.kind = "not called" /\ dict_out.kind \notin {"pending", "not called"}

(***************************************************************************)
(* C2. For every identity with a "type" key whose values hold neither '&'  *)
(* nor '=', dict_from_uri(uri_from_dict(identity)) returns a mapping equal *)
(* to the identity.                                                        *)
(***************************************************************************)
C2_RoundTripReturnsIdentity ==
    (RoundTripDone /\ RoundTripIdentity(descriptor_dict))
    => dict_out.kind = "return" /\ dict_out.value = descriptor_dict

(***************************************************************************)
(* C8. For every URI whose scheme is not the descriptor scheme, whose path *)
(* is not exactly the two segments descriptor:<type>, or in which a query  *)
(* key occurs more than once, dict_from_uri fails with the descriptor      *)
(* error and with no other error, with or without a query part.            *)
(***************************************************************************)
C8_MalformedUriRaisesDescriptorError ==
    (ParseDone /\ (SchemeMismatch(uri) \/ PathMismatch(uri) \/ KeyRepeats(uri)))
    => dict_out.kind = "TankDescriptorError"

(***************************************************************************)
(* C3. Once a get_manifest() call of the instance has returned, every      *)
(* later get_manifest() returns the identical value without probing the    *)
(* cache paths, downloading or reading the metadata file again, whatever   *)
(* happened to the files and whatever the file parsed to.                  *)
(***************************************************************************)
C3_ManifestLoadedOnce ==
    (last.op = "get_manifest" /\ last.prior # "unset")
    => /\ last.kind = "return"
       /\ last.value = last.prior
       /\ ~last.probed /\ ~last.downloaded /\ ~last.read

(***************************************************************************)
(* C7. When get_manifest() finds the bundle not local, download_local()    *)
(* returns and no candidate path has the metadata file, get_manifest()     *)
(* fails with the "metadata file missing" descriptor error and with no     *)
(* other error.                                                            *)
(***************************************************************************)
C7_MissingMetadataRaisesDescriptorError ==
    (last.op = "get_manifest" /\ last.downloaded /\ last.dl_returned
        /\ ~last.local_after)
    => last.kind = "TankDescriptorError" /\ last.error = "metadata file missing"

(***************************************************************************)
(* C9 as stated. An ensure_local() during which the bundle is local at     *)
(* every moment does not invoke download_local(), and whenever a           *)
(* download_local() made by ensure_local() has made the bundle local,      *)
(* download_local() has been invoked at most once on the instance.         *)
(***************************************************************************)
C9_AtMostOneDownloadEver ==
    [][ (call.op = "ensure_local" /\ download_calls' # download_calls)
        => /\ None \in call.firsts
           /\ exists_local(fs') => download_calls' <= 1 ]_vars

\* a step of the call under way itself, not of the environment: the call
\* moves on to its next statement or to the next turn of its lookup
CallStep == call.pc # "idle" /\ (call'.pc # call.pc \/ call'.i # call.i)

(***************************************************************************)
(* C9 amended. One ensure_local() invokes download_local() at most once,   *)
(* and only when every candidate path was without the metadata file at     *)
(* some moment of the call.  On a bundle that is local when the call       *)
(* begins, with no metadata file created or removed while the call runs,   *)
(* it does not invoke download_local() and changes no state.  (Over        *)
(* several calls download_local() may be invoked more than once.)          *)
(***************************************************************************)
C9_EnsureLocalDownloadsOnlyWhenNotLocal ==
    [][ (call.op = "ensure_local" /\ CallStep)
        => /\ download_calls' \in {download_calls, download_calls + 1}
           /\ download_calls' # download_calls
              => /\ \A p \in Range(get_cache_paths) : p \in call.lacked
                 /\ ~call.downloaded
                 /\ call'.pc = "idle"
                 /\ last'.op = "ensure_local" /\ last'.downloaded
           /\ (call.was_local /\ call.touched = {})
              => /\ UNCHANGED <<manifest_data, fs, download_calls, first_manifest, self>>
                 /\ call'.pc = "idle"
                    => (last'.op = "ensure_local" /\ ~last'.downloaded) ]_vars

\* C9 witness: after a download made the bundle local, a further
\* ensure_local() found it local and downloaded nothing
C9_SecondCallOnLocalBundle ==
    /\ last.op = "ensure_local"
    /\ last.was_local
    /\ ~last.downloaded
    /\ download_calls >= 1

(***************************************************************************)
(* C10. Whenever ensure_local() returns without error, exists_local() is   *)
(* true at that moment.                                                    *)
(***************************************************************************)
C10_ReturnImpliesLocal ==
    (last.op = "ensure_local" /\ last.kind = "return") => last.local_after

(***************************************************************************)
(* C11. A get_manifest() that fails leaves the manifest cache unset and    *)
(* the instance's fields as they were, so nothing partial is returned      *)
(* later and the next get_manifest() starts again from the local-existence *)
(* check; an ensure_local() that fails leaves the identity, the cache      *)
(* roots and the manifest cache unchanged.                                 *)
(***************************************************************************)
C11_FailedCallLeavesInstanceAsItWas ==
    [][ /\ (last'.op = "get_manifest" /\ last'.kind # "return")
           => /\ manifest_data' = None
              /\ manifest_data' = manifest_data
              /\ first_manifest' = first_manifest
              /\ self' = self
        /\ (last.op = "get_manifest" /\ last.kind # "return"
               /\ last'.op = "get_manifest")
           => last'.probed
        /\ (last.op = "get_manifest" /\ last.kind # "return"
               /\ call'.op = "get_manifest")
           => call'.pc = "exists_local"
        /\ (last'.op = "ensure_local" /\ last'.kind # "return")
           => /\ manifest_data' = manifest_data
              /\ self' = self ]_vars

\* C11 witness: a get_manifest() that downloaded the bundle has failed on a
\* metadata file that does not parse
C11_FailedOnUnparsableFile ==
    /\ last.op = "get_manifest"
    /\ last.downloaded
    /\ last.kind = "TankDescriptorError"
    /\ last.error = "Cannot load metadata file"
    /\ fs[DownloadTarget] = "invalid"
    /\ manifest_data = None

(***************************************************************************)
(* C12 as stated. get_path() returns the first candidate path, in the      *)
(* order of the candidate sequence, whose metadata file exists, and None   *)
(* when no candidate has it; exists_local() is true exactly when some      *)
(* candidate has it.  Read in the way most favourable to the code: what    *)
(* the call returns is what the first candidate with a metadata file was   *)
(* at some moment between the call and its return.                         *)
(***************************************************************************)
LookupReturns(op) == call.op = op /\ call.pc # "idle" /\ call'.pc = "idle"

C12_GetPathReturnsFirstMatch ==
    [][ /\ LookupReturns("get_path")
           => (last'.op = "get_path" /\ last'.value \in call.firsts)
        /\ LookupReturns("exists_local")
           => /\ last'.op = "exists_local"
              /\ last'.value => call.firsts # {None}
              /\ ~last'.value => None \in call.firsts ]_vars

\* the candidate path held a metadata file at some moment since the call
\* under way began: it holds one now, or the environment wrote or deleted it
HeldDuringCall(p) == fs[p] # Absent \/ p \in call.touched

\* value is the first candidate of the sequence that has a metadata file in
\* files, None when no candidate has one
IsFirstMatch(value, files) ==
    /\ (value = None) <=> (\A i \in 1..Len(get_cache_paths) :
                               files[get_cache_paths[i]] = Absent)
    /\ \A i \in 1..Len(get_cache_paths) :
          (files[get_cache_paths[i]] # Absent
              /\ \A j \in 1..(i - 1) : files[get_cache_paths[j]] = Absent)
          => value = get_cache_paths[i]
    /\ files[get_cache_paths[1]] # Absent => value = get_cache_paths[1]

\* value is a candidate that held a metadata file at some moment of the
\* call under way, every candidate before it having been without one at
\* some moment of the call; or None, every candidate having been without one
IsFirstMatchOfProbes(value) ==
    /\ value \in Range(get_cache_paths) \cup {None}
    /\ value = None => \A p \in Range(get_cache_paths) : p \in call.lacked
    /\ \A i \in 1..Len(get_cache_paths) :
          value = get_cache_paths[i]
          => /\ HeldDuringCall(get_cache_paths[i])
             /\ \A j \in 1..(i - 1) : get_cache_paths[j] \in call.lacked

(***************************************************************************)
(* C12 amended. get_path() tests the candidates in the order of the        *)
(* sequence, one test each.  When no metadata file is created or removed   *)
(* during the call it returns the first candidate whose metadata file      *)
(* exists, None when no candidate has it, and a copy at the primary        *)
(* location wins over any other.  In general the candidate it returns held *)
(* the file at some moment of the call and every earlier candidate was     *)
(* without it at some moment of the call; None means every candidate was   *)
(* without it at some moment of the call.  exists_local() is true exactly  *)
(* when such a lookup gives a candidate.                                   *)
(***************************************************************************)
C12_FirstMatchOfWhatTheCallSaw ==
    [][ /\ LookupReturns("get_path")
           => /\ last'.op = "get_path" /\ last'.kind = "return"
              /\ IsFirstMatchOfProbes(last'.value)
              /\ call.touched = {} => IsFirstMatch(last'.value, fs')
        /\ LookupReturns("exists_local")
           => /\ last'.op = "exists_local" /\ last'.kind = "return"
              /\ last'.value \in BOOLEAN
              /\ \E found \in Range(get_cache_paths) \cup {None} :
                    /\ IsFirstMatchOfProbes(found)
                    /\ last'.value <=> found # None
              /\ call.touched = {}
                 => (last'.value <=> (\E i \in 1..Len(get_cache_paths) :
                                          fs'[get_cache_paths[i]] # Absent)) ]_vars

\* C12 witness: get_path() answered with the primary location while another
\* candidate held a metadata file too
C12_PrimaryWinsOverAlternative ==
    /\ last.op = "get_path"
    /\ fs[get_cache_paths[1]] # Absent
    /\ fs[get_cache_paths[2]] # Absent
    /\ last.value = get_cache_paths[1]

(***************************************************************************)
(* C13. For the Perforce descriptor exists_local() is never true unless a  *)
(* download_local() has completed; after a download_local() whose sync     *)
(* raised, exists_local() is false, and a later download_local() syncs     *)
(* again instead of returning early.                                       *)
(***************************************************************************)
C13_LocalOnlyAfterCompleteDownload ==
    /\ p4_exists_local(perforce) => perforce.completed
    /\ (perforce.last.op = "exists_local" /\ perforce.last.value)
       => perforce.completed
    /\ (perforce.last.op = "download_local" /\ perforce.last.kind = "return"
           /\ ~perforce.last.synced)
       => perforce.completed

(***************************************************************************)
(* C14. When threads call get_manifest() concurrently on an instance whose *)
(* manifest is not loaded and every call returns a manifest, the metadata  *)
(* file has been parsed at most once and download_local() has been         *)
(* invoked at most once.                                                   *)
(***************************************************************************)
C14_ConcurrentCallsLoadOnce ==
    (\A t \in Threads :
        /\ threads.calls[t].pc = "done"
        /\ threads.calls[t].out.kind = "return"
        /\ threads.calls[t].out.value # None)
    => threads.parses <= 1 /\ download_calls <= 1

\* the integer keys of the returned tag, and the number of pattern segments
ReturnedKeys == TagSplit(matcher_out.value)

PatternLength == Len(FindAll(pattern))

(***************************************************************************)
(* C15. Whenever the matcher returns, every component of the result past   *)
(* the pattern's segments is the maximum integer key of its level, and the *)
(* level under the result has no children; so when a kept tag extends the  *)
(* part matched by the pattern, the result is never that bare part.        *)
(***************************************************************************)
C15_DescendsIntoForks ==
    (MatcherDone /\ matcher_out.kind = "return")
    => LET versions == BuildVersions(version_numbers)
       IN  /\ Len(ReturnedKeys) >= PatternLength
           /\ \A i \in (PatternLength + 1)..Len(ReturnedKeys) :
                 /\ ReturnedKeys[i] \in Keys(versions, SubSeq(ReturnedKeys, 1, i - 1))
                 /\ \A k \in Keys(versions, SubSeq(ReturnedKeys, 1, i - 1)) :
                       k <= ReturnedKeys[i]
           /\ Keys(versions, ReturnedKeys) = {}
           /\ (\E j \in 1..Len(version_numbers) :
                  /\ TagKept(version_numbers[j])
                  /\ Len(TagSplit(version_numbers[j])) > PatternLength
                  /\ SubSeq(TagSplit(version_numbers[j]), 1, PatternLength)
                        = SubSeq(ReturnedKeys, 1, PatternLength))
              => Len(ReturnedKeys) > PatternLength

\* C15 witness: the concrete pattern v1.2.3 against v1.2.3 and v1.2.3.2 has
\* returned v1.2.3.2
C15_ConcretePatternReturnsFork ==
    /\ MatcherDone
    /\ pattern = <<"v", "1", ".", "2", ".", "3">>
    /\ version_numbers = << <<"v", "1", ".", "2", ".", "3">>,
                            <<"v", "1", ".", "2", ".", "3", ".", "2">> >>
    /\ matcher_out.kind = "return"
    /\ matcher_out.value = <<"v", "1", ".", "2", ".", "3", ".", "2">>

\* a tag that is none of the invalid forms: it starts with v and has at least
\* three components, each a run of digits
IsIntegerTag(t) ==
    /\ Len(t) >= 1
    /\ t[1] = "v"
    /\ LET parts == Split(Drop(t, 1), ".")
       IN  Len(parts) >= 3 /\ \A i \in 1..Len(parts) : AllDigits(parts[i])

\* the tag list with the invalid tags removed
WithoutInvalidTags(tags) == SelectSeq(tags, IsIntegerTag)

(***************************************************************************)
(* C16. Invalid tags never influence the matcher: it returns the same tag, *)
(* or fails with the same kind of error, as on the list with the invalid   *)
(* tags removed.                                                           *)
(***************************************************************************)
C16_InvalidTagsIgnored ==
    MatcherDone
    => LET clean == find_latest_tag_by_pattern(WithoutInvalidTags(version_numbers),
                                               pattern)
       IN  /\ matcher_out.kind = clean.kind
           /\ matcher_out.kind = "return" => matcher_out.value = clean.value

(***************************************************************************)
(* C17. No operation of a descriptor (set_cache_roots, get_dict, get_uri,  *)
(* get_path, exists_local, ensure_local, get_manifest, copy) adds, removes *)
(* or changes a key of the identity given at construction, and get_dict()  *)
(* returns that identity in every reachable state.                         *)
(***************************************************************************)
C17_IdentityNeverChanges ==
    [][ /\ self'.descriptor_dict = self.descriptor_dict
        /\ self'.descriptor_dict \in ConstructedWith
        /\ last'.op = "get_dict" => last'.value = self.descriptor_dict ]_vars

\* C17 witness: get_dict() has been called after set_cache_roots and a
\* get_manifest() that loaded the manifest
C17_GetDictAfterOtherCalls ==
    /\ last.op = "get_dict"
    /\ last.value \in ConstructedWith
    /\ self.bundle_cache_root # None
    /\ first_manifest # "unset"

(***************************************************************************)
(* C18. For the roots [primary, fallback_1, ..., fallback_n] the candidate *)
(* sequence has exactly 2(n+1) entries: for each root in that order the    *)
(* new-style path root/type/name/version and right after it the legacy     *)
(* path root/<legacy-dir>/type/name/version, legacy-dir being 'apps',      *)
(* 'engines' or 'frameworks' by bundle category; any other category is an  *)
(* error.  Computing the sequence changes no state.                        *)
(***************************************************************************)
LegacyDirFor(bundle_type) ==
    CASE bundle_type = "APP" -> "apps"
      [] bundle_type = "ENGINE" -> "engines"
      [] bundle_type = "FRAMEWORK" -> "frameworks"

C18_CachePathOrder ==
    /\ [](resolver.out # Pending
          => LET roots == resolver.roots
                 b == resolver.bundle
             IN  IF b.bundle_type \in {"APP", "ENGINE", "FRAMEWORK"}
                 THEN /\ resolver.out.kind = "return"
                      /\ Len(resolver.out.value) = 2 * Len(roots)
                      /\ \A k \in 1..Len(roots) :
                            /\ resolver.out.value[2 * k - 1]
                                 = <<roots[k], b.type, b.name, b.version>>
                            /\ resolver.out.value[2 * k]
                                 = <<roots[k], LegacyDirFor(b.bundle_type),
                                     b.type, b.name, b.version>>
                 ELSE resolver.out.kind = "RuntimeError")
    /\ [][ /\ resolver'.roots = resolver.roots
           /\ resolver'.bundle = resolver.bundle
           /\ UNCHANGED <<descriptorVars, perforceVars, threadVars>> ]_vars

\* C18 witness: the sequence has been computed for a primary root and a
\* fallback root that differ
C18_SequenceOverTwoRoots ==
    /\ resolver.out.kind = "return"
    /\ Len(resolver.roots) = 2
    /\ resolver.roots[1] # resolver.roots[2]
    /\ Len(resolver.out.value) = 4

(***************************************************************************)
(* C19. uri_from_dict fails with the descriptor error exactly when the     *)
(* identity has no "type" key; otherwise it returns                        *)
(* sgtk:descriptor:<type>? followed by exactly one k=v pair for every key  *)
(* of the identity other than "type", joined by '&', no key twice and      *)
(* "type" never in the query.                                              *)
(***************************************************************************)
\* the query strings that hold one k=v pair per key of keys, in some order
QueriesOver(d, keys) ==
    { Join([i \in 1..Cardinality(keys) |-> order[i] \o <<"=">> \o d[order[i]]], <<"&">>) :
        order \in Perms(keys) }

UriFromDictCalled == uri_out.kind \notin {"pending", "not called"}

C19_UriFromDictSerializesEveryKeyOnce ==
    UriFromDictCalled
    => /\ uri_out.kind = "TankDescriptorError" <=> TypeKey \notin DOMAIN descriptor_dict
       /\ TypeKey \in DOMAIN descriptor_dict
          => /\ uri_out.kind = "return"
             /\ \E qs \in QueriesOver(descriptor_dict, DOMAIN descriptor_dict \ {TypeKey}) :
                   uri_out.value = <<"s", "g", "t", "k", ":", "d", "e", "s", "c", "r", "i",
                                     "p", "t", "o", "r", ":">>
                                   \o descriptor_dict[TypeKey] \o <<"?">> \o qs

\* C19 witness: an identity with "type" and two other keys has been serialized
C19_TwoKeysSerialized ==
    /\ uri_out.kind = "return"
    /\ TypeKey \in DOMAIN descriptor_dict
    /\ Cardinality(DOMAIN descriptor_dict) = 3

(***************************************************************************)
(* C20. _validate_descriptor raises the descriptor error if and only if at *)
(* least one required key is missing from the identity; keys outside the   *)
(* union of required and optional keys produce only a warning and never a  *)
(* failure, and the identity is not modified by validation.                *)
(***************************************************************************)
MissingRequired == validation.required \ DOMAIN validation.descriptor_dict

UnsupportedKeys ==
    DOMAIN validation.descriptor_dict \ (validation.required \cup validation.optional)

C20_RaisesIffRequiredKeyMissing ==
    /\ [](validation.out # Pending
          => /\ validation.out.kind = "TankDescriptorError" <=> MissingRequired # {}
             /\ MissingRequired = {} => validation.out = Return(None)
             /\ MissingRequired = {} /\ UnsupportedKeys # {} => validation.warnings = 1
             /\ UnsupportedKeys = {} => validation.warnings = 0)
    /\ [][validation'.descriptor_dict = validation.descriptor_dict]_vars

\* C20 witness: a dictionary with every required key and a key that is neither
\* required nor optional has been validated
C20_UnsupportedKeyOnlyWarned ==
    /\ validation.out.kind = "return"
    /\ validation.required # {}
    /\ UnsupportedKeys # {}
    /\ validation.warnings = 1

(***************************************************************************)
(* C21 as stated. A get_manifest() that loads and returns gives the parsed *)
(* content of the metadata file under the first candidate path that has a  *)
(* metadata file at the time of loading, not that of a file under a later  *)
(* candidate.  Read in the way most favourable to the code: the file is    *)
(* one of a candidate that was the first with a metadata file at some      *)
(* moment between the call and its return.                                 *)
(***************************************************************************)
\* what yaml.load gives for the files that can be under a candidate path
ParsedAt(p) == { YamlLoad(c) : c \in ContentsAt(p) \ {"invalid"} }

LoadReturns ==
    /\ call.op = "get_manifest" /\ call.pc # "idle" /\ call'.pc = "idle"
    /\ last'.op = "get_manifest" /\ last'.kind = "return" /\ last'.read

C21_ManifestOfFirstCandidate ==
    [][ LoadReturns
        => \E p \in call.firsts \ {None} : last'.value \in ParsedAt(p) ]_vars

(***************************************************************************)
(* C21 amended. A get_manifest() that loads and returns gives the parsed   *)
(* content of the metadata file under the candidate its get_path() gave.   *)
(* When no metadata file is created or removed during the call, that is    *)
(* the first candidate path that has a metadata file, not a later one.  In *)
(* general it is a candidate that held the file at some moment of the      *)
(* call, every earlier candidate having been without it at some moment of  *)
(* the call: it can be a later candidate than any that was first at a      *)
(* moment of the call.                                                     *)
(***************************************************************************)
C21_ManifestOfCandidateTheCallSaw ==
    [][ LoadReturns
        => \E i \in 1..Len(get_cache_paths) :
              /\ call.bundle_root = get_cache_paths[i]
              /\ IsFirstMatchOfProbes(get_cache_paths[i])
              /\ last'.value \in ParsedAt(get_cache_paths[i])
              /\ get_cache_paths[i] \notin call.touched
                 => /\ fs'[get_cache_paths[i]] \notin {Absent, "invalid"}
                    /\ last'.value = YamlLoad(fs'[get_cache_paths[i]])
              /\ call.touched = {}
                 => IsFirstMatch(get_cache_paths[i], fs') ]_vars

\* C21 witness: the manifest was loaded from the primary location while a
\* later candidate held a different metadata file
LoadedNow == last.op = "get_manifest" /\ last.kind = "return" /\ last.read

C21_LoadedWithTwoCopies ==
    /\ LoadedNow
    /\ fs[get_cache_paths[1]] = "m1"
    /\ fs[get_cache_paths[2]] = "m2"
    /\ last.value = "m1"

(***************************************************************************)
(* C22. After any set_core_path() call has ended, by normal return or by   *)
(* an exception raised while a module is re-imported, the core-change lock *)
(* is not held, so that a later set_core_path() with a new valid path does *)
(* not wait for it forever.                                                *)
(***************************************************************************)
C22_LockFreeAfterEveryCall ==
    (importer.constructed /\ importer.caller.pc = "idle")
    => importer.core_change_lock = "free"

(***************************************************************************)
(* C23. The core-change lock serializes set_core_path() with the imports   *)
(* of other threads: core_path changes only while the lock is held, no     *)
(* find_module/load_module of a namespace module runs in another thread    *)
(* between the start of the module deletion and the end of the re-import,  *)
(* and sys.modules never holds namespace modules of two cores.             *)
(***************************************************************************)
C23_CoreSwitchExcludesImports ==
    /\ [][ /\ (importer.constructed /\ importer'.core_path # importer.core_path)
              => importer.core_change_lock = "held"
           /\ importer.caller.pc \in {"delete", "reimport"}
              => importer'.other = importer.other ]_vars
    /\ [](\A m1, m2 \in NamespaceModules :
             (importer.sys_modules[m1] # NotImported /\ importer.sys_modules[m2] # NotImported)
             => importer.sys_modules[m1].from = importer.sys_modules[m2].from)

(***************************************************************************)
(* C24. After set_core_path(p) returns for an existing path p different    *)
(* from the current core path, every module in sys.modules whose top-level *)
(* package is in the namespaces was loaded from under p: none loaded from  *)
(* the previous core remains, none was re-imported from another location.  *)
(***************************************************************************)
SwitchReturned ==
    /\ importer.caller.pc = "idle"
    /\ importer.caller.entry = "switch"
    /\ importer.caller.out.kind = "return"

C24_ModulesOnlyFromNewCore ==
    SwitchReturned
    => \A m \in NamespaceModules :
          importer.sys_modules[m] # NotImported
          => importer.sys_modules[m].from = importer.caller.path

(***************************************************************************)
(* C25. Constructing a CoreImportHandler removes from sys.modules and      *)
(* re-imports through the handler every module imported before whose       *)
(* top-level package is in the namespaces, and construction ends with the  *)
(* lock and the module-info table initialized.                             *)
(***************************************************************************)
JustConstructed == importer.constructed /\ importer.caller.entry = "none"

C25_ConstructionReimportsNamespaceModules ==
    JustConstructed
    => /\ \A m \in NamespaceModules :
             (importer.at_construction[m] # NotImported
                 /\ ModuleFile(importer.disk, importer.core_path, m) = "ok")
             => importer.sys_modules[m] = Loaded(importer.core_path, "handler")
       /\ importer.core_change_lock = "free"
       /\ importer.module_info = NoModuleInfo

(***************************************************************************)
(* C26. set_core_path(p) with p equal to the current core path changes     *)
(* nothing; set_core_path(p) with a path that does not exist raises        *)
(* ValueError and leaves core_path, sys.modules and the lock state as they *)
(* were before the call.                                                   *)
(***************************************************************************)
C26_SamePathNoOpMissingPathValueError ==
    [][ (importer.constructed /\ importer.caller.pc = "idle"
           /\ importer'.caller.pc = "idle")
        => /\ importer'.caller.path = importer.core_path
              => /\ importer'.core_path = importer.core_path
                 /\ importer'.sys_modules = importer.sys_modules
                 /\ importer'.core_change_lock = importer.core_change_lock
                 /\ importer'.module_info = importer.module_info
           /\ ~path_exists(importer'.caller.path)
              => /\ importer'.caller.out.kind = "ValueError"
                 /\ importer'.core_path = importer.core_path
                 /\ importer'.sys_modules = importer.sys_modules
                 /\ importer'.core_change_lock = importer.core_change_lock ]_vars

(***************************************************************************)
(* C27. For every tag list and every pattern the matcher of                *)
(* TankPerforceDescriptor returns the most appropriate tag of the list,    *)
(* with the same outcome (returned tag or kind of failure) as the matcher  *)
(* of IODescriptorBase on the same inputs.                                 *)
(***************************************************************************)
C27_PerforceMatcherAgreesWithBase ==
    (matcher_out # Pending /\ p4_matcher_out # Pending)
    => /\ p4_matcher_out.kind = matcher_out.kind
       /\ matcher_out.kind = "return" => p4_matcher_out.value = matcher_out.value

(***************************************************************************)
(* C28. Constructing a TankPerforceDescriptor from a location dict that    *)
(* lacks "path" or lacks "version" fails with TankError ('Perforce         *)
(* descriptor is not valid') and with no other kind of error; construction *)
(* succeeds only when both are present.                                    *)
(***************************************************************************)
C28_InvalidLocationRaisesTankError ==
    p4_init.out # Pending
    => LET complete == {<<"p", "a", "t", "h">>, <<"v", "e", "r", "s", "i", "o", "n">>}
                          \subseteq DOMAIN p4_init.location_dict
       IN  /\ ~complete => p4_init.out.kind = "TankError"
           /\ p4_init.out.kind = "return" => complete

(***************************************************************************)
(* C29. The identity returned by dict_from_uri always has "type" equal to  *)
(* the second path segment of the URI, whatever keys the query contains, a *)
(* query key named "type" included.                                        *)
(***************************************************************************)
C29_TypeIsSecondPathSegment ==
    dict_out.kind = "return"
    => /\ TypeKey \in DOMAIN dict_out.value
       /\ Len(UriPathSegments(uri)) >= 2
       /\ dict_out.value[TypeKey] = UriPathSegments(uri)[2]

(***************************************************************************)
(* C30. Whenever _find_latest_tag_by_pattern returns, the returned string  *)
(* is an element of the input tag list.                                    *)
(***************************************************************************)
C30_ReturnedTagIsInTheList ==
    matcher_out.kind = "return"
    => \E i \in 1..Len(version_numbers) : version_numbers[i] = matcher_out.value


====
